---- MODULE Spec2Model ----
(***************************************************************************)
(* A model of the crudio data-model builder (CrudioDataModel): the build   *)
(* of the in-memory tables, the relationship passes, the token engine and  *)
(* the trigger scripts.  The build is one synchronous call tree, modelled  *)
(* as a stack machine: `stack` holds one frame per active call, and each   *)
(* action runs the next step of the call on top of the stack.              *)
(*                                                                         *)
(* JavaScript strings are sequences of one-character strings, so that      *)
(* matching, splitting, trimming and case folding are computed.            *)
(***************************************************************************)
EXTENDS Integers, Sequences, FiniteSets, TLC

VARIABLES
    generators,     \* CrudioDataModel.generators: sequence of [name, values]
    entityDefinitions, \* CrudioDataModel.entityDefinitions
    triggers,       \* CrudioDataModel.triggers: sequence of [entity, scripts]
    assign,         \* CrudioDataModel.assign: sequence of instructions
    tables,         \* CrudioDataModel.tables: sequence of [TableName, Entity, DataRows]
    rows,           \* every CrudioEntityInstance created so far (the heap)
    unique_keys_values, \* CrudioEntityType.unique_keys_values, as <<entity, field, value>>
    stack,          \* the call stack of the build
    ret,            \* the value returned by the call that ended last
    error,          \* the exception that aborted the build ("" when none)
    uuidCount,      \* how many UUIDs randomUUID() has handed out
    rndDen,         \* Math.random() returns k / rndDen for some k in 0..rndDen-1
    input           \* the input the run was started on (never changes)

vars == <<generators, entityDefinitions, triggers, assign, tables, rows,
          unique_keys_values, stack, ret, error, uuidCount, rndDen, input>>

-----------------------------------------------------------------------------
(* Bounds of the model. *)

\* Math.random() granularity of the token-engine runs
TokenDen == 17
\* Math.random() granularity of the range-generator runs
RangeDen == 256
\* Math.random() granularity of the table-building runs
BuildDen == 4

-----------------------------------------------------------------------------
(* JavaScript strings *)

Digits == <<"0", "1", "2", "3", "4", "5", "6", "7", "8", "9">>
UpperCase == <<"A", "B", "C", "D", "E", "F", "G", "H", "I", "J", "K", "L", "M",
               "N", "O", "P", "Q", "R", "S", "T", "U", "V", "W", "X", "Y", "Z">>
LowerCase == <<"a", "b", "c", "d", "e", "f", "g", "h", "i", "j", "k", "l", "m",
               "n", "o", "p", "q", "r", "s", "t", "u", "v", "w", "x", "y", "z">>

Range(s) == {s[i] : i \in DOMAIN s}

\* s.includes(c) for a one-character c
Includes(s, c) == \E i \in DOMAIN s : s[i] = c

\* whether pat occurs in s at position i
OccursAt(s, pat, i) ==
    /\ i >= 1
    /\ i + Len(pat) - 1 <= Len(s)
    /\ \A k \in 1..Len(pat) : s[i + k - 1] = pat[k]

\* s.indexOf(pat), 1-based; 0 when pat does not occur
IndexOf(s, pat) ==
    IF \E i \in 1..(Len(s) + 1) : OccursAt(s, pat, i)
    THEN CHOOSE i \in 1..(Len(s) + 1) :
            /\ OccursAt(s, pat, i)
            /\ \A j \in 1..(i - 1) : ~OccursAt(s, pat, j)
    ELSE 0

\* s.replace(pat, rep) with a string pattern: the first occurrence only
ReplaceFirst(s, pat, rep) ==
    LET i == IndexOf(s, pat)
    IN  IF i = 0 THEN s
        ELSE SubSeq(s, 1, i - 1) \o rep \o SubSeq(s, i + Len(pat), Len(s))

\* s.replace(/c1|c2/g, "") and s.replaceAll(c, ""): drop every character in cs
RECURSIVE RemoveChars(_, _)
RemoveChars(s, cs) ==
    IF s = <<>> THEN <<>>
    ELSE (IF Head(s) \in cs THEN <<>> ELSE <<Head(s)>>) \o RemoveChars(Tail(s), cs)

\* s.split(sep) for a one-character separator
RECURSIVE Split(_, _)
Split(s, sep) ==
    LET i == IndexOf(s, <<sep>>)
    IN  IF i = 0 THEN <<s>>
        ELSE <<SubSeq(s, 1, i - 1)>> \o Split(SubSeq(s, i + 1, Len(s)), sep)

\* s.trim()
RECURSIVE TrimLeft(_)
TrimLeft(s) == IF s # <<>> /\ Head(s) = " " THEN TrimLeft(Tail(s)) ELSE s

RECURSIVE TrimRight(_)
TrimRight(s) ==
    IF s # <<>> /\ s[Len(s)] = " " THEN TrimRight(SubSeq(s, 1, Len(s) - 1)) ELSE s

Trim(s) == TrimRight(TrimLeft(s))

ToLowerChar(c) ==
    IF \E i \in DOMAIN UpperCase : UpperCase[i] = c
    THEN LowerCase[CHOOSE i \in DOMAIN UpperCase : UpperCase[i] = c]
    ELSE c

\* s.toLowerCase()
ToLowerCase(s) == [i \in DOMAIN s |-> ToLowerChar(s[i])]

DigitValue(c) == (CHOOSE i \in DOMAIN Digits : Digits[i] = c) - 1

IsDigit(c) == \E i \in DOMAIN Digits : Digits[i] = c

\* String(n) for a natural number
RECURSIVE NatToString(_)
NatToString(n) ==
    IF n < 10 THEN <<Digits[n + 1]>>
    ELSE NatToString(n \div 10) \o <<Digits[(n % 10) + 1]>>

\* String(n) for an integer
IntToString(n) == IF n < 0 THEN <<"-">> \o NatToString(0 - n) ELSE NatToString(n)

\* the leading run of digits of s, as a number (acc is the value read so far)
RECURSIVE ReadDigits(_, _)
ReadDigits(s, acc) ==
    IF s # <<>> /\ IsDigit(Head(s))
    THEN ReadDigits(Tail(s), 10 * acc + DigitValue(Head(s)))
    ELSE acc

-----------------------------------------------------------------------------
(* JavaScript values: one record shape for every kind, so that any two     *)
(* values can be compared.  k is the kind, s the characters of a string,   *)
(* n a number, a row id or a truth value, l the row ids of an array.       *)

Str(s) == [k |-> "str", s |-> s, n |-> 0, l |-> <<>>]
Num(n) == [k |-> "num", s |-> <<>>, n |-> n, l |-> <<>>]
NaN == [k |-> "nan", s |-> <<>>, n |-> 0, l |-> <<>>]
Undefined == [k |-> "undefined", s |-> <<>>, n |-> 0, l |-> <<>>]
Obj == [k |-> "object", s |-> <<>>, n |-> 0, l |-> <<>>]
Ref(id) == [k |-> "ref", s |-> <<>>, n |-> id, l |-> <<>>]
List(l) == [k |-> "list", s |-> <<>>, n |-> 0, l |-> l]
Bool(b) == [k |-> "bool", s |-> <<>>, n |-> IF b THEN 1 ELSE 0, l |-> <<>>]

ObjectObject == <<"[", "o", "b", "j", "e", "c", "t", " ", "O", "b", "j", "e", "c", "t", "]">>

RECURSIVE JoinObjects(_)
JoinObjects(n) ==
    IF n = 0 THEN <<>>
    ELSE IF n = 1 THEN ObjectObject
    ELSE ObjectObject \o <<",">> \o JoinObjects(n - 1)

\* String(v): what string.replace() inserts for a replacement value v
StringOf(v) ==
    IF v.k = "str" THEN v.s
    ELSE IF v.k = "num" THEN IntToString(v.n)
    ELSE IF v.k = "nan" THEN <<"N", "a", "N">>
    ELSE IF v.k = "undefined" THEN <<"u", "n", "d", "e", "f", "i", "n", "e", "d">>
    ELSE IF v.k = "bool" THEN (IF v.n = 1 THEN <<"t", "r", "u", "e">>
                               ELSE <<"f", "a", "l", "s", "e">>)
    ELSE IF v.k = "list" THEN JoinObjects(Len(v.l))
    ELSE ObjectObject

\* whether v is truthy
Truthy(v) ==
    IF v.k = "str" THEN v.s # <<>>
    ELSE IF v.k = "num" THEN v.n # 0
    ELSE IF v.k = "bool" THEN v.n = 1
    ELSE v.k \in {"ref", "list", "object"}

\* parseInt(s, 10)
ParseInt(s) ==
    LET t == TrimLeft(s)
        neg == t # <<>> /\ Head(t) = "-"
        u == IF t # <<>> /\ Head(t) \in {"-", "+"} THEN Tail(t) ELSE t
    IN  IF u = <<>> \/ ~IsDigit(Head(u)) THEN NaN
        ELSE Num(IF neg THEN 0 - ReadDigits(u, 0) ELSE ReadDigits(u, 0))

\* Number(s) for the index text of a script: digits, or "" which is 0
ToNumber(s) ==
    LET t == Trim(s)
    IN  IF t = <<>> THEN Num(0)
        ELSE IF \A i \in DOMAIN t : IsDigit(t[i]) THEN Num(ReadDigits(t, 0))
        ELSE NaN

\* the result on a thrown exception, and on a normal return
Throw(msg) == [err |-> msg, value |-> Undefined]
Ok(v) == [err |-> "", value |-> v]

-----------------------------------------------------------------------------
(* The names the runs use: keys of the field maps, generators, entities,  *)
(* tables and values of the syntax guide, as JavaScript strings.            *)

Names ==
    [ id |-> <<"i", "d">>,
      name |-> <<"n", "a", "m", "e">>,
      hex_digit |-> <<"h", "e", "x", "_", "d", "i", "g", "i", "t">>,
      hex |-> <<"h", "e", "x">>,
      bit |-> <<"b", "i", "t">>,
      pair |-> <<"p", "a", "i", "r">>,
      range |-> <<"r", "a", "n", "g", "e">>,
      tag |-> <<"t", "a", "g">>,
      Tag |-> <<"T", "a", "g">>,
      Tags |-> <<"T", "a", "g", "s">>,
      Blog |-> <<"B", "l", "o", "g">>,
      Blogs |-> <<"B", "l", "o", "g", "s">>,
      BlogTags |-> <<"B", "l", "o", "g", "T", "a", "g", "s">>,
      User |-> <<"U", "s", "e", "r">>,
      Users |-> <<"U", "s", "e", "r", "s">>,
      Organisation |-> <<"O", "r", "g", "a", "n", "i", "s", "a", "t", "i", "o", "n">>,
      Organisations |-> <<"O", "r", "g", "a", "n", "i", "s", "a", "t", "i", "o", "n", "s">>,
      OrganisationRole |-> <<"O", "r", "g", "a", "n", "i", "s", "a", "t", "i", "o", "n", "R", "o", "l", "e">>,
      OrganisationRoles |-> <<"O", "r", "g", "a", "n", "i", "s", "a", "t", "i", "o", "n", "R", "o", "l", "e", "s">>,
      role |-> <<"r", "o", "l", "e">>,
      CEO |-> <<"C", "E", "O">>,
      CFO |-> <<"C", "F", "O">>,
      Staff |-> <<"S", "t", "a", "f", "f">>,
      Person |-> <<"P", "e", "r", "s", "o", "n">>,
      Client |-> <<"C", "l", "i", "e", "n", "t">>,
      Manager |-> <<"M", "a", "n", "a", "g", "e", "r">>,
      code |-> <<"c", "o", "d", "e">>,
      email |-> <<"e", "m", "a", "i", "l">>,
      People |-> <<"P", "e", "o", "p", "l", "e">> ]

-----------------------------------------------------------------------------
(* The field map of an instance (DataValues): a sequence of [key, val] in  *)
(* insertion order, which is the order Object.keys() returns.              *)

HasKey(dv, key) == \E i \in DOMAIN dv : dv[i].key = key

GetValue(dv, key) ==
    IF HasKey(dv, key) THEN dv[CHOOSE i \in DOMAIN dv : dv[i].key = key].val
    ELSE Undefined

SetValue(dv, key, val) ==
    IF HasKey(dv, key)
    THEN [i \in DOMAIN dv |-> IF dv[i].key = key THEN [key |-> key, val |-> val] ELSE dv[i]]
    ELSE Append(dv, [key |-> key, val |-> val])

Keys(dv) == [i \in DOMAIN dv |-> dv[i].key]

-----------------------------------------------------------------------------
(* Generators *)

\* fieldValue.match(/\[.*?\]+/g): the tokens of s, in order (<<>> for null)
RECURSIVE MatchTokens(_)
MatchTokens(s) ==
    LET open == IndexOf(s, <<"[">>)
        close == IF open = 0 THEN 0
                 ELSE IndexOf(SubSeq(s, open + 1, Len(s)), <<"]">>)
        first == open + close
        last == CHOOSE e \in first..Len(s) :
                    /\ \A k \in first..e : s[k] = "]"
                    /\ (e = Len(s) \/ s[e + 1] # "]")
    IN  IF open = 0 \/ close = 0 THEN <<>>
        ELSE <<SubSeq(s, open, last)>> \o MatchTokens(SubSeq(s, last + 1, Len(s)))

\* fieldName.match(/^\?|!|~|\*/g) || []
RECURSIVE MatchParams(_, _)
MatchParams(s, i) ==
    IF i > Len(s) THEN <<>>
    ELSE (IF (i = 1 /\ s[i] = "?") \/ s[i] \in {"!", "~", "*"} THEN <<s[i]>> ELSE <<>>)
         \o MatchParams(s, i + 1)

\* value.trim().replaceAll(" ", "").toLowerCase()
Clean(s) == ToLowerCase(RemoveChars(Trim(s), {" "}))

\* CrudioDataModel.GetGenerator: the values of the generator, or an exception
GetGenerator(generatorName) ==
    IF \E i \in DOMAIN generators : generators[i].name = generatorName
    THEN Ok(Str(generators[CHOOSE i \in DOMAIN generators :
                    /\ generators[i].name = generatorName
                    /\ \A j \in (i + 1)..Len(generators) :
                          generators[j].name # generatorName].values))
    ELSE Throw("Generator name is invalid")

\* content.replace(/(^;)|(;$)/g, "")
StripSeparators(content) ==
    LET a == IF content # <<>> /\ Head(content) = ";" THEN Tail(content) ELSE content
    IN  IF a # <<>> /\ a[Len(a)] = ";" THEN SubSeq(a, 1, Len(a) - 1) ELSE a

\* GetRandomStringFromList without the strip of the leading and trailing separator
GetRandomStringFromList_NoStrip(content, num, den) ==
    LET words == Split(content, ";")
        index == (Len(words) * num) \div den
    IN  Str(words[index + 1])

\* CrudioDataModel.GetRandomStringFromList, Math.random() being num / den
GetRandomStringFromList(content, num, den) ==
    LET words == Split(StripSeparators(content), ";")
        index == (Len(words) * num) \div den
    IN  Str(words[index + 1])

\* GetRandomNumber with an inclusive upper end
GetRandomNumber_Inclusive(min, max, num, den) ==
    IF min.k = "num" /\ max.k = "num"
    THEN Num((((max.n - min.n + 1) * num) \div den) + min.n)
    ELSE NaN

\* CrudioDataModel.GetRandomNumber, Math.random() being num / den
GetRandomNumber(min, max, num, den) ==
    IF min.k = "num" /\ max.k = "num"
    THEN Num((((max.n - min.n) * num) \div den) + min.n)
    ELSE NaN

\* randomUUID(): the n-th UUID handed out
Uuid(n) == <<"u", "u", "i", "d", "-">> \o NatToString(n)

\* DateTime.utc().toFormat("dd-mm-yyyy") and new Date(...).toISOString() without Z
DateText == <<"0", "1", "-", "0", "0", "-", "2", "0", "2", "2">>
TimestampText == <<"2", "0", "2", "2", "-", "0", "8", "-", "0", "1", "T",
                   "0", "0", ":", "0", "0", ":", "0", "0", ".", "0", "0", "0">>

\* CrudioDataModel.GetGeneratedValue
GetGeneratedValue(generatorName, num, den) ==
    LET lower == ToLowerCase(generatorName)
        g == GetGenerator(generatorName)
        content == g.value.s
        vals == Split(content, ">")
    IN  IF generatorName = <<>> THEN Throw("generatorName must specify a generator")
        ELSE IF lower = <<"u", "u", "i", "d">> THEN Ok(Str(Uuid(uuidCount)))
        ELSE IF lower = <<"d", "a", "t", "e">> THEN Ok(Str(DateText))
        ELSE IF lower = <<"t", "i", "m", "e">> THEN Ok(Obj)
        ELSE IF lower = <<"t", "i", "m", "e", "s", "t", "a", "m", "p">> THEN Ok(Str(TimestampText))
        ELSE IF g.err # "" THEN g
        ELSE IF Includes(content, ";") THEN Ok(GetRandomStringFromList(content, num, den))
        ELSE IF Includes(content, ">")
             THEN Ok(GetRandomNumber(ParseInt(vals[1]), ParseInt(vals[2]), num, den))
        ELSE Ok(Str(content))

\* CrudioDataModel.GetEntityFieldValueFromPath on the field map dv
RECURSIVE WalkPath(_, _)
WalkPath(dv, path) ==
    LET v == GetValue(dv, path[1])
    IN  IF Len(path) = 1
        THEN (IF Truthy(v) THEN Ok(v) ELSE Throw("whoops"))
        ELSE IF v.k = "ref" THEN WalkPath(rows[v.n].DataValues, Tail(path))
        ELSE Throw("whoops")

GetEntityFieldValueFromPath(fieldName, dv) == WalkPath(dv, Split(fieldName, "."))

\* CrudioDataModel.ProcessTokensInField on the field map dv
ProcessTokensInField(dv, fieldName, clean) ==
    LET own == GetValue(dv, fieldName)
        got == IF Truthy(own) THEN Ok(own) ELSE GetEntityFieldValueFromPath(fieldName, dv)
    IN  IF got.err # "" THEN got
        ELSE IF ~clean THEN got
        ELSE IF got.value.k = "str" THEN Ok(Str(Clean(got.value.s)))
        ELSE Throw("value.trim is not a function")

-----------------------------------------------------------------------------
(* The call stack.  The frame on top is the call that runs; a call that    *)
(* returns pops its frame and leaves its result in ret; an exception       *)
(* nobody catches unwinds the whole stack and ends the build.              *)

Top == stack[Len(stack)]

Running(op) == error = "" /\ stack # <<>> /\ Top.op = op

Finished == stack = <<>>

Goto(frame) == /\ stack' = [stack EXCEPT ![Len(stack)] = frame]
               /\ UNCHANGED <<ret, error>>

Call(frame, callee) == /\ stack' = Append([stack EXCEPT ![Len(stack)] = frame], callee)
                       /\ UNCHANGED <<ret, error>>

Return(v) == /\ stack' = SubSeq(stack, 1, Len(stack) - 1)
             /\ ret' = v
             /\ UNCHANGED error

Abort(msg) == /\ stack' = <<>>
              /\ error' = msg
              /\ UNCHANGED ret

schemaVars == <<generators, entityDefinitions, triggers, assign, rndDen, input>>

-----------------------------------------------------------------------------
(* The token engine *)

\* the frame of a call ReplaceTokens(fieldValue, entity); entity is the
\* field map of the instance, present when hasEntity
ReplaceTokensFrame(fieldValue, hasEntity, dv) ==
    [op |-> "ReplaceTokens", pc |-> "match", fieldValue |-> fieldValue,
     hasEntity |-> hasEntity, entity |-> dv, tokens |-> <<>>, value |-> Undefined]

TokenName(t) == RemoveChars(t, {"[", "]"})

TokenField(t) ==
    LET token == TokenName(t)
    IN  SubSeq(token, Len(MatchParams(token, 1)) + 1, Len(token))

TokenIsGenerator(t) ==
    LET params == Range(MatchParams(TokenName(t), 1))
    IN  "!" \notin params /\ "?" \notin params

\* the value one token of ReplaceTokens is replaced with (the body of tokens.map)
TokenValue(t, f, num, den) ==
    LET params == Range(MatchParams(TokenName(t), 1))
        fieldName == TokenField(t)
        lookup == "!" \in params
        clean == "~" \in params
        query == "?" \in params
        path == GetEntityFieldValueFromPath(fieldName, f.entity)
        raw == IF lookup
               THEN (IF f.hasEntity THEN ProcessTokensInField(f.entity, fieldName, clean)
                     ELSE Throw("entity must be specified when using '!' to lookup"))
               ELSE IF query
               THEN (IF ~f.hasEntity
                     THEN Throw("entity must be specified when using '!' to lookup")
                     ELSE IF path.err # "" THEN path
                     ELSE Ok(Str(<<"[">> \o StringOf(path.value) \o <<"]">>)))
               ELSE GetGeneratedValue(fieldName, num, den)
    IN  IF raw.err = "" /\ Truthy(raw.value) /\ clean
        THEN (IF raw.value.k = "str" THEN Ok(Str(Clean(raw.value.s)))
              ELSE Throw("value.trim is not a function"))
        ELSE raw

\* whether ReplaceTokens goes round again after a round whose last value is v
LoopAgain(v) == v.k = "str" /\ Includes(v.s, "[") /\ Includes(v.s, "]")

\* CrudioDataModel.ReplaceTokens: one step is the match of a round, or the
\* replacement of one token of the round
ReplaceTokens ==
    /\ Running("ReplaceTokens")
    /\ \E num \in 0..(rndDen - 1) :
        LET f == Top
            t == Head(f.tokens)
            r == TokenValue(t, f, num, rndDen)
            fv == ReplaceFirst(f.fieldValue, <<"[">> \o TokenName(t) \o <<"]">>,
                               StringOf(r.value))
            isUuid == TokenIsGenerator(t)
                      /\ ToLowerCase(TokenField(t)) = <<"u", "u", "i", "d">>
        IN  IF f.pc = "match"
            THEN /\ IF MatchTokens(f.fieldValue) = <<>>
                    THEN Return(Str(f.fieldValue))
                    ELSE Goto([f EXCEPT !.pc = "token",
                                        !.tokens = MatchTokens(f.fieldValue)])
                 /\ UNCHANGED uuidCount
            ELSE /\ IF r.err # "" THEN Abort(r.err)
                    ELSE IF Len(f.tokens) > 1
                    THEN Goto([f EXCEPT !.fieldValue = fv, !.value = r.value,
                                        !.tokens = Tail(f.tokens)])
                    ELSE IF LoopAgain(r.value)
                    THEN Goto([f EXCEPT !.fieldValue = fv, !.value = r.value,
                                        !.tokens = <<>>, !.pc = "match"])
                    ELSE Return(Str(fv))
                 /\ uuidCount' = IF isUuid THEN uuidCount + 1 ELSE uuidCount
    /\ UNCHANGED <<schemaVars, tables, rows, unique_keys_values>>

-----------------------------------------------------------------------------
(* Entity definitions, tables and instances *)

\* CrudioDataModel.DefaultNumberOfRowsToGenerate
DefaultNumberOfRowsToGenerate == 50

\* the index in entityDefinitions of the first definition named name, or 0
DefinitionIndex(name) ==
    IF \E i \in DOMAIN entityDefinitions : entityDefinitions[i].Name = name
    THEN CHOOSE i \in DOMAIN entityDefinitions :
            /\ entityDefinitions[i].Name = name
            /\ \A j \in 1..(i - 1) : entityDefinitions[j].Name # name
    ELSE 0

\* CrudioDataModel.GetEntityDefinition of a name that is defined
GetEntityDefinition(name) == entityDefinitions[DefinitionIndex(name)]

\* CrudioEntityType.GetField: the fields of the definition named fieldName
FieldsNamed(def, fieldName) ==
    {i \in DOMAIN def.fields : def.fields[i].fieldName = fieldName}

\* CrudioDataModel.GetTableForEntityDefinition, GetTableForEntityName: the
\* index of the first table of the entity, or 0
TableForEntity(ts, name) ==
    IF \E i \in DOMAIN ts : ts[i].Entity = name
    THEN CHOOSE i \in DOMAIN ts :
            /\ ts[i].Entity = name
            /\ \A j \in 1..(i - 1) : ts[j].Entity # name
    ELSE 0

\* CrudioDataModel.GetTable: the index of the first table named name, or 0
GetTable(ts, name) ==
    IF \E i \in DOMAIN ts : ts[i].TableName = name
    THEN CHOOSE i \in DOMAIN ts :
            /\ ts[i].TableName = name
            /\ \A j \in 1..(i - 1) : ts[j].TableName # name
    ELSE 0

\* the concatenation of the sequences of ss
RECURSIVE Flatten(_)
Flatten(ss) == IF ss = <<>> THEN <<>> ELSE Head(ss) \o Flatten(Tail(ss))

\* a variant of CreateInMemoryDataTables that does not leave out the
\* abstract definitions
CreateInMemoryDataTables_All ==
    LET IsTable(e) == ~e.IsManyToManyJoin
        IsJoin(e) == e.IsManyToManyJoin
        NewTable(e) == [TableName |-> e.TableName, Entity |-> e.Name, DataRows |-> <<>>]
        plain == SelectSeq(entityDefinitions, IsTable)
        joins == SelectSeq(entityDefinitions, IsJoin)
    IN  [i \in DOMAIN plain |-> NewTable(plain[i])] \o [i \in DOMAIN joins |-> NewTable(joins[i])]

\* CrudioDataModel.CreateInMemoryDataTables: a table per concrete type that
\* is no join, then a table per join type
CreateInMemoryDataTables ==
    LET IsTable(e) == ~e.IsManyToManyJoin /\ ~e.IsAbstract
        IsJoin(e) == e.IsManyToManyJoin
        NewTable(e) == [TableName |-> e.TableName, Entity |-> e.Name, DataRows |-> <<>>]
        plain == SelectSeq(entityDefinitions, IsTable)
        joins == SelectSeq(entityDefinitions, IsJoin)
    IN  [i \in DOMAIN plain |-> NewTable(plain[i])] \o [i \in DOMAIN joins |-> NewTable(joins[i])]

\* a variant of HasNoRows for which every table is still to be filled
HasNoRows_Always(ts, t) == TRUE

\* table.DataRows.length == 0: the table is still to be filled
HasNoRows(ts, t) == ts[t].DataRows = <<>>

\* the relationships of the definitions, in the order of the definitions
Relationships(defs) == Flatten([i \in DOMAIN defs |-> defs[i].relationships])

\* CrudioDataModel.SetupEntityGenerators: every field set to its generator
SetupEntityGenerators(dv, def) ==
    LET RECURSIVE Setup(_, _)
        Setup(d, fs) ==
            IF fs = <<>> THEN d
            ELSE Setup(SetValue(d, Head(fs).fieldName, Head(fs).generator), Tail(fs))
    IN  Setup(dv, def.fields)

\* CrudioDataModel.ConnectRows on the heap rs: the source points to the
\* target, and the target's list for the source's table gets the source
ConnectRows(rs, sourceRow, targetRow) ==
    LET sourceTable == tables[TableForEntity(tables, rs[sourceRow].EntityType)]
        targetTable == tables[TableForEntity(tables, rs[targetRow].EntityType)]
        pointed == [rs EXCEPT ![sourceRow].DataValues =
                        SetValue(@, targetTable.Entity, Ref(targetRow))]
        old == GetValue(pointed[targetRow].DataValues, sourceTable.TableName)
        list == IF Truthy(old) THEN old.l ELSE <<>>
    IN  [pointed EXCEPT ![targetRow].DataValues =
            SetValue(@, sourceTable.TableName, List(Append(list, sourceRow)))]

\* whether ConnectRows throws: a row is missing, a row's type has no table, or
\* the target's field for the source's table holds something that is no array
ConnectRowsFails(rs, sourceRow, targetRow) ==
    \/ sourceRow = 0
    \/ targetRow = 0
    \/ TableForEntity(tables, rs[sourceRow].EntityType) = 0
    \/ TableForEntity(tables, rs[targetRow].EntityType) = 0
    \/ LET sourceTable == tables[TableForEntity(tables, rs[sourceRow].EntityType)]
           old == GetValue(rs[targetRow].DataValues, sourceTable.TableName)
       IN  Truthy(old) /\ old.k # "list"

-----------------------------------------------------------------------------
(* Frames of the calls of the build *)

FillDataTablesFrame == [op |-> "FillDataTables", pc |-> "create", todo |-> <<>>]

FillTableFrame(t) ==
    [op |-> "FillTable", pc |-> "count", table |-> t, count |-> 0, c |-> 0,
     records |-> <<>>]

CreateEntityInstanceFrame(def) ==
    [op |-> "CreateEntityInstance", pc |-> "new", def |-> def, entity |-> 0,
     scripts |-> <<>>]

ProcessAllTokensInTableFrame(t) ==
    [op |-> "ProcessAllTokensInTable", pc |-> "row", table |-> t,
     list |-> tables[t].DataRows, ri |-> 1, maxtries |-> 0, rejected |-> 0]

ProcessTokensInEntityFrame(e) ==
    [op |-> "ProcessTokensInEntity", pc |-> "field", entity |-> e,
     keys |-> Keys(rows[e].DataValues), i |-> 1, new_instance |-> rows[e].DataValues]

JoinOneToManyFrame(r) ==
    [op |-> "JoinOneToMany", pc |-> "start", r |-> r, list |-> <<>>, si |-> 1,
     index |-> 0]

JoinManyToManyFrame(d) ==
    [op |-> "JoinManyToMany", pc |-> "start", d |-> d, source_ids |-> <<>>,
     target_ids |-> <<>>, si |-> 1, i |-> 0, c |-> 0, options |-> <<>>,
     row_num |-> 0, row |-> 0]

ExecuteTriggerFrame(e, script) ==
    [op |-> "ExecuteTrigger", pc |-> "tokens", parent_entity |-> e, script |-> script,
     field_name |-> <<>>, entity_type |-> <<>>, query |-> <<>>,
     row_start |-> Undefined, row_end |-> Undefined, ri |-> 0, target |-> 0]

ConnectChildWithRelatedEntityFrame(parent, field_name, row_index, target) ==
    [op |-> "ConnectChildWithRelatedEntity", pc |-> "start", parent_entity |-> parent,
     field_name |-> field_name, row_index |-> row_index,
     target_connection |-> target, def |-> <<>>, new_entity |-> 0]

-----------------------------------------------------------------------------
(* Filling the tables *)

\* the row count FillTable derives from a generator's values
GeneratorCount(v) == Len(Split(v, ";")) - 1

\* FillTable with a loop that runs once more for a number
RowCount_OneMore(def) ==
    IF def.MaxRowCount.k = "num" THEN Ok(Num(def.MaxRowCount.n + 1))
    ELSE Ok(Num(DefaultNumberOfRowsToGenerate))

\* CrudioDataModel.FillTable: the number of rows to create, or an exception
RowCount(def) ==
    LET g == RemoveChars(def.MaxRowCount.s, {"[", "]"})
        v == GetGenerator(g)
    IN  IF def.MaxRowCount.k = "str"
        THEN (IF v.err # "" THEN v
              ELSE IF GeneratorCount(v.value.s) = 0
              THEN Throw("Unable to determine entity count")
              ELSE Ok(Num(GeneratorCount(v.value.s))))
        ELSE IF def.MaxRowCount.k = "num" THEN Ok(def.MaxRowCount)
        ELSE Ok(Num(DefaultNumberOfRowsToGenerate))

\* CrudioDataModel.FillTable: one step is the count, the call that creates
\* the next instance, the push of the instance created, or the final
\* assignment of the records to the table
FillTable ==
    /\ Running("FillTable")
    /\ LET f == Top
           def == GetEntityDefinition(tables[f.table].Entity)
           n == RowCount(def)
       IN  IF f.pc = "count"
           THEN /\ IF n.err # "" THEN Abort(n.err)
                   ELSE Goto([f EXCEPT !.pc = "loop", !.count = n.value.n])
                /\ UNCHANGED tables
           ELSE IF f.pc = "created"
           THEN /\ Goto([f EXCEPT !.pc = "loop", !.c = f.c + 1,
                                  !.records = Append(f.records, ret.n)])
                /\ UNCHANGED tables
           ELSE IF f.c < f.count
           THEN /\ Call([f EXCEPT !.pc = "created"], CreateEntityInstanceFrame(def.Name))
                /\ UNCHANGED tables
           ELSE /\ tables' = [tables EXCEPT ![f.table].DataRows = f.records]
                /\ Return(Undefined)
    /\ UNCHANGED <<schemaVars, rows, unique_keys_values, uuidCount>>

\* the scripts of the trigger of the entity, last script first
TriggersFor_Reversed(name) ==
    IF \E i \in DOMAIN triggers : triggers[i].entity = name
    THEN LET scripts == triggers[CHOOSE i \in DOMAIN triggers :
                            /\ triggers[i].entity = name
                            /\ \A j \in (i + 1)..Len(triggers) : triggers[j].entity # name].scripts
         IN  [i \in DOMAIN scripts |-> scripts[Len(scripts) + 1 - i]]
    ELSE <<>>

\* this.triggers[name]: the scripts of the last trigger loaded for the entity
TriggersFor(name) ==
    IF \E i \in DOMAIN triggers : triggers[i].entity = name
    THEN triggers[CHOOSE i \in DOMAIN triggers :
                    /\ triggers[i].entity = name
                    /\ \A j \in (i + 1)..Len(triggers) : triggers[j].entity # name].scripts
    ELSE <<>>

\* CrudioDataModel.CreateEntityInstance with ProcessTriggersForEntity: one
\* step creates the instance with its generators, or calls the next script
\* of the triggers of its type, or returns the instance
CreateEntityInstance ==
    /\ Running("CreateEntityInstance")
    /\ LET f == Top
           def == GetEntityDefinition(f.def)
           new == [EntityType |-> f.def, DataValues |-> SetupEntityGenerators(<<>>, def),
                   skip |-> FALSE]
       IN  IF f.pc = "new"
           THEN /\ rows' = Append(rows, new)
                /\ Goto([f EXCEPT !.pc = "triggers", !.entity = Len(rows) + 1,
                                  !.scripts = TriggersFor(f.def)])
           ELSE /\ IF f.scripts = <<>> THEN Return(Ref(f.entity))
                   ELSE Call([f EXCEPT !.scripts = Tail(f.scripts)],
                             ExecuteTriggerFrame(f.entity, Head(f.scripts)))
                /\ UNCHANGED rows
    /\ UNCHANGED <<schemaVars, tables, unique_keys_values, uuidCount>>

-----------------------------------------------------------------------------
(* Token processing of instances *)

\* the retry budget of ProcessAllTokensInTable
MaxTries == 1000

\* CrudioDataModel.ProcessAllTokensInTable: for each row of the table, as it
\* was at the call, attempts of ProcessTokensInEntity until one is accepted;
\* ok and maxtries are locals of the callback, gone when the row is done
ProcessAllTokensInTable ==
    /\ Running("ProcessAllTokensInTable")
    /\ LET f == Top
       IN  IF f.pc = "row"
           THEN (IF f.ri > Len(f.list) THEN Return(Undefined)
                 ELSE Goto([f EXCEPT !.pc = "try", !.maxtries = MaxTries]))
           ELSE IF f.pc = "try"
           THEN (IF f.maxtries > 0
                 THEN (IF f.maxtries - 1 = 0
                       THEN Abort("Failed to create unique value")
                       ELSE Call([f EXCEPT !.pc = "back", !.maxtries = f.maxtries - 1],
                                 ProcessTokensInEntityFrame(f.list[f.ri])))
                 ELSE Goto([f EXCEPT !.pc = "row", !.ri = f.ri + 1, !.maxtries = 0,
                                     !.rejected = 0]))
           ELSE (IF ret.n = 1
                 THEN Goto([f EXCEPT !.pc = "row", !.ri = f.ri + 1, !.maxtries = 0,
                                     !.rejected = 0])
                 ELSE Goto([f EXCEPT !.pc = "try", !.rejected = f.rejected + 1]))
    /\ UNCHANGED <<schemaVars, tables, rows, unique_keys_values, uuidCount>>

\* detokenised_value.toLowerCase().trim()
UniqueKey(s) == Trim(ToLowerCase(s))

\* whether the field of the row is compared with the values in use
IsUniqueField(def, field_name) ==
    /\ FieldsNamed(def, field_name) # {}
    /\ \A i \in FieldsNamed(def, field_name) : def.fields[i].isUnique

\* whether a field value has tokens for ReplaceTokens
HasTokens(v) == v.k = "str" /\ Includes(v.s, "[")

\* CrudioDataModel.ProcessTokensInEntity: one step looks at the next field of
\* the copy and calls ReplaceTokens for it, or takes the result back into the
\* copy and checks it; after the last field the copy replaces the field map
ProcessTokensInEntity ==
    /\ Running("ProcessTokensInEntity")
    /\ LET f == Top
           def == GetEntityDefinition(rows[f.entity].EntityType)
           field_name == f.keys[f.i]
           field_value == GetValue(f.new_instance, field_name)
           detokenised == SetValue(f.new_instance, field_name, ret)
           key == <<def.Name, field_name, UniqueKey(ret.s)>>
       IN  IF f.pc = "field"
           THEN /\ IF f.i > Len(f.keys) THEN Return(Bool(TRUE))
                   ELSE IF HasTokens(field_value)
                   THEN Call([f EXCEPT !.pc = "back"],
                             ReplaceTokensFrame(field_value.s, TRUE, f.new_instance))
                   ELSE Goto([f EXCEPT !.i = f.i + 1])
                /\ rows' = IF f.i > Len(f.keys)
                           THEN [rows EXCEPT ![f.entity].DataValues = f.new_instance]
                           ELSE rows
                /\ UNCHANGED unique_keys_values
           ELSE /\ IF Includes(ret.s, "[") THEN Abort("Detokenisation failed")
                   ELSE IF Cardinality(FieldsNamed(def, field_name)) > 1
                   THEN Abort("matches multiple fields on entity")
                   ELSE IF IsUniqueField(def, field_name) /\ key \in unique_keys_values
                   THEN Return(Bool(FALSE))
                   ELSE Goto([f EXCEPT !.pc = "field", !.i = f.i + 1,
                                       !.new_instance = detokenised])
                /\ unique_keys_values' =
                      IF /\ ~Includes(ret.s, "[")
                         /\ Cardinality(FieldsNamed(def, field_name)) = 1
                         /\ IsUniqueField(def, field_name)
                      THEN unique_keys_values \cup {key}
                      ELSE unique_keys_values
                /\ UNCHANGED rows
    /\ UNCHANGED <<schemaVars, tables, uuidCount>>

-----------------------------------------------------------------------------
(* Relationships *)

\* every source row gets a random target row
TakesRandomTarget_Always(index, targetCount) == TRUE

\* CrudioDataModel.JoinOneToMany: whether the source row gets a random target
\* row, all target rows having been taken in their order
TakesRandomTarget(index, targetCount) == index > targetCount - 1

\* the number n whatever v is
MathMin_First(n, v) == Num(n)

\* CrudioDataModel.JoinOneToMany: one step finds the two tables, or connects
\* the next source row: the target rows are taken in order while there are
\* target rows not yet taken, and at random after that
JoinOneToMany ==
    /\ Running("JoinOneToMany")
    /\ \E num \in 0..(rndDen - 1) :
        LET f == Top
            s == TableForEntity(tables, f.r.FromEntity)
            t == TableForEntity(tables, f.r.ToEntity)
            targets == tables[t].DataRows
            random == TakesRandomTarget(f.index, Len(targets))
            row_num == IF random
                       THEN GetRandomNumber(Num(0), Num(Len(targets)), num, rndDen).n
                       ELSE f.index
            index == IF random THEN f.index ELSE f.index + 1
            sourceRow == f.list[f.si]
            targetRow == targets[row_num + 1]
        IN  IF f.pc = "start"
            THEN /\ IF s = 0 \/ t = 0 THEN Abort("Table for entity not found")
                    ELSE Goto([f EXCEPT !.pc = "rows", !.list = tables[s].DataRows])
                 /\ UNCHANGED rows
            ELSE IF f.si > Len(f.list)
            THEN /\ Return(Undefined)
                 /\ UNCHANGED rows
            ELSE IF row_num < Len(targets)
            THEN (IF ConnectRowsFails(rows, sourceRow, targetRow)
                  THEN /\ Abort("ConnectRows failed")
                       /\ UNCHANGED rows
                  ELSE /\ rows' = ConnectRows(rows, sourceRow, targetRow)
                       /\ Goto([f EXCEPT !.si = f.si + 1, !.index = index]))
            ELSE /\ Goto([f EXCEPT !.si = f.si + 1, !.index = index])
                 /\ UNCHANGED rows
    /\ UNCHANGED <<schemaVars, tables, unique_keys_values, uuidCount>>

\* Math.min(n, v) for a number n and a value v
MathMin(n, v) == IF v.k = "num" THEN Num(IF n < v.n THEN n ELSE v.n) ELSE NaN

\* options after options.slice(row_num, 1): slice returns a copy and leaves
\* the array as it is
OptionsAfterSlice(options, row_num) == options

\* CrudioDataModel.JoinManyToMany: one step collects the ids of the two
\* endpoint tables, starts on the next source id, draws the target of the
\* next join row and calls for its creation, sets it up, has its tokens
\* processed, or sets its two foreign keys and pushes it to the join table
JoinManyToMany ==
    /\ Running("JoinManyToMany")
    /\ \E num \in 0..(rndDen - 1) :
        LET f == Top
            d == GetEntityDefinition(f.d)
            j == TableForEntity(tables, f.d)
            s == TableForEntity(tables, d.SourceRelationship.FromEntity)
            t == TableForEntity(tables, d.SourceRelationship.ToEntity)
            Ids(list) == [i \in DOMAIN list |-> GetValue(rows[list[i]].DataValues, Names.id)]
            row_num == GetRandomNumber(Num(0), Num(Len(f.options)), num, rndDen).n
            keyed == SetValue(SetValue(rows[f.row].DataValues,
                                       d.SourceRelationship.FromEntity, f.source_ids[f.si]),
                              d.SourceRelationship.ToEntity, f.options[f.row_num + 1])
        IN  IF f.pc = "start"
            THEN /\ IF j = 0 \/ s = 0 \/ t = 0 THEN Abort("Table for entity not found")
                    ELSE Goto([f EXCEPT !.pc = "source",
                                        !.source_ids = Ids(tables[s].DataRows),
                                        !.target_ids = Ids(tables[t].DataRows)])
                 /\ UNCHANGED <<tables, rows>>
            ELSE IF f.pc = "source"
            THEN /\ IF f.si > Len(f.source_ids) THEN Return(Undefined)
                    ELSE Goto([f EXCEPT !.pc = "pick", !.options = f.target_ids, !.i = 0,
                                        !.c = MathMin(Len(f.target_ids),
                                                      d.SourceRelationship.NumberOfSeededRelations)])
                 /\ UNCHANGED <<tables, rows>>
            ELSE IF f.pc = "pick"
            THEN /\ IF f.c.k = "num" /\ f.i < f.c.n
                    THEN Call([f EXCEPT !.pc = "created", !.row_num = row_num,
                                        !.options = OptionsAfterSlice(f.options, row_num)],
                              CreateEntityInstanceFrame(f.d))
                    ELSE Goto([f EXCEPT !.pc = "source", !.si = f.si + 1])
                 /\ UNCHANGED <<tables, rows>>
            ELSE IF f.pc = "created"
            THEN /\ rows' = [rows EXCEPT ![ret.n].DataValues = SetupEntityGenerators(@, d)]
                 /\ Goto([f EXCEPT !.pc = "process", !.row = ret.n])
                 /\ UNCHANGED tables
            ELSE IF f.pc = "process"
            THEN /\ Call([f EXCEPT !.pc = "processed"], ProcessTokensInEntityFrame(f.row))
                 /\ UNCHANGED <<tables, rows>>
            ELSE /\ rows' = [rows EXCEPT ![f.row].DataValues = keyed]
                 /\ tables' = [tables EXCEPT ![j].DataRows = Append(@, f.row)]
                 /\ Goto([f EXCEPT !.pc = "pick", !.i = f.i + 1])
    /\ UNCHANGED <<schemaVars, unique_keys_values, uuidCount>>

-----------------------------------------------------------------------------
(* Trigger scripts *)

\* s.slice(a, b) with 0-based a and b, negative counting from the end
JsSlice(s, a, b) ==
    LET Norm(i) == IF i < 0 THEN (IF Len(s) + i < 0 THEN 0 ELSE Len(s) + i)
                   ELSE IF i > Len(s) THEN Len(s) ELSE i
    IN  IF Norm(a) >= Norm(b) THEN <<>> ELSE SubSeq(s, Norm(a) + 1, Norm(b))

\* s.indexOf(c, from), 0-based, -1 when there is none
JsIndexOf(s, c, from) ==
    LET rest == JsSlice(s, from, Len(s))
    IN  IF IndexOf(rest, <<c>>) = 0 THEN 0 - 1
        ELSE (Len(s) - Len(rest)) + IndexOf(rest, <<c>>) - 1

\* CrudioDataModel.ExecuteTrigger: the script taken apart
ParseScript(script) ==
    LET query_index == JsIndexOf(script, "?", 0)
        query == JsSlice(script, query_index + 1, Len(script))
        parts == Split(JsSlice(script, 0, query_index), ".")
        entity_type == IF Len(parts) >= 2 THEN Str(parts[2]) ELSE Undefined
        bracket == JsIndexOf(parts[1], "(", 0)
        index_text == JsSlice(parts[1], bracket + 1, JsIndexOf(parts[1], ")", bracket + 1))
        row_parts == Split(index_text, "-")
        row_start == ToNumber(row_parts[1])
        row_end == IF Len(row_parts) = 2 THEN ToNumber(row_parts[2]) ELSE row_start
    IN  IF bracket > 0 - 1
        THEN [err |-> IF JsIndexOf(parts[1], ")", 0) < 0 THEN "Syntax error - missing ')'"
                      ELSE "",
              field_name |-> RemoveChars(JsSlice(parts[1], 0, bracket), {"]"}),
              entity_type |-> entity_type, query |-> query,
              row_start |-> row_start, row_end |-> row_end]
        ELSE [err |-> "", field_name |-> parts[1], entity_type |-> entity_type,
              query |-> query, row_start |-> Undefined, row_end |-> Undefined]

\* CrudioDataModel.ExecuteCrudioQuery on the rows of a table that has rows
QueryRows(list, query) ==
    LET parts == Split(query, "=")
        field == parts[1]
        Matches(r) == GetValue(rows[r].DataValues, field) = Str(parts[2])
    IN  IF query = <<>> \/ query = <<"*">> \/ Trim(query) = <<>> THEN Ok(List(list))
        ELSE IF field = <<>> \/ Len(parts) < 2 \/ parts[2] = <<>>
        THEN Throw("Syntax error in query")
        ELSE Ok(List(SelectSeq(list, Matches)))

\* CrudioDataModel.ExecuteTrigger with ExecuteCrudioQuery: one step has the
\* tokens of the parent processed, has the tokens of the script replaced,
\* takes the script apart and finds the table of the query (filling it and
\* processing its tokens when it is empty), runs the query, or calls
\* ConnectChildWithRelatedEntity for the next index of the range
ExecuteTrigger ==
    /\ Running("ExecuteTrigger")
    /\ LET f == Top
           p == ParseScript(ret.s)
           t == IF f.entity_type.k = "str" THEN TableForEntity(tables, f.entity_type.s) ELSE 0
           pt == IF p.entity_type.k = "str" THEN TableForEntity(tables, p.entity_type.s) ELSE 0
           parsed == [f EXCEPT !.field_name = p.field_name, !.entity_type = p.entity_type,
                               !.query = p.query, !.row_start = p.row_start,
                               !.row_end = p.row_end]
           found == QueryRows(tables[t].DataRows, f.query)
       IN  IF f.pc = "tokens"
           THEN Call([f EXCEPT !.pc = "script"], ProcessTokensInEntityFrame(f.parent_entity))
           ELSE IF f.pc = "script"
           THEN Call([f EXCEPT !.pc = "parse"], ReplaceTokensFrame(f.script, FALSE, <<>>))
           ELSE IF f.pc = "parse"
           THEN (IF p.err # "" THEN Abort(p.err)
                 ELSE IF pt = 0 THEN Abort("Table for entity not found")
                 ELSE IF HasNoRows(tables, pt)
                 THEN Call([parsed EXCEPT !.pc = "populated"], FillTableFrame(pt))
                 ELSE Goto([parsed EXCEPT !.pc = "query"]))
           ELSE IF f.pc = "populated"
           THEN Call([f EXCEPT !.pc = "query"], ProcessAllTokensInTableFrame(t))
           ELSE IF f.pc = "query"
           THEN (IF tables[t].DataRows = <<>> THEN Abort("Source table has no rows")
                 ELSE IF found.err # "" THEN Abort(found.err)
                 ELSE IF found.value.l = <<>> THEN Abort("Failed to find entity matching query")
                 ELSE Goto([f EXCEPT !.pc = "connect", !.target = found.value.l[1],
                                     !.ri = IF f.row_start.k = "num" THEN f.row_start.n ELSE 0]))
           ELSE (IF f.row_start.k = "num" /\ f.row_end.k = "num" /\ f.ri <= f.row_end.n
                 THEN Call([f EXCEPT !.ri = f.ri + 1],
                           ConnectChildWithRelatedEntityFrame(f.parent_entity, f.field_name,
                                                              f.row_start.n, f.target))
                 ELSE Return(Undefined))
    /\ UNCHANGED <<schemaVars, tables, rows, unique_keys_values, uuidCount>>

\* CrudioDataModel.ConnectChildWithRelatedEntity: one step gives the parent
\* its list and connects the child at the index when there is one, calls for
\* the creation of a missing child, pushes the child created to the table of
\* its type and connects it to the parent and to the target, has the tokens
\* of the child processed, or ends with the check of the index
ConnectChildWithRelatedEntity ==
    /\ Running("ConnectChildWithRelatedEntity")
    /\ LET f == Top
           parent == f.parent_entity
           old == GetValue(rows[parent].DataValues, f.field_name)
           parent_array == IF Truthy(old) THEN old.l ELSE <<>>
           withList == IF Truthy(old) THEN rows
                       ELSE [rows EXCEPT ![parent].DataValues =
                                SetValue(@, f.field_name, List(<<>>))]
           table == GetTable(tables, f.field_name)
           child == parent_array[f.row_index + 1]
           new_entity == ret.n
           toParent == ConnectRows(rows, new_entity, parent)
       IN  IF f.pc = "start"
           THEN /\ IF table = 0 THEN Abort("Table not found")
                   ELSE IF Truthy(old) /\ old.k # "list" THEN Abort("field is no list")
                   ELSE IF Len(parent_array) < f.row_index + 1
                   THEN Goto([f EXCEPT !.pc = "loop", !.def = tables[table].Entity])
                   ELSE IF ConnectRowsFails(withList, child, f.target_connection)
                   THEN Abort("ConnectRows failed")
                   ELSE Goto([f EXCEPT !.pc = "check", !.def = tables[table].Entity])
                /\ rows' = IF table = 0 \/ (Truthy(old) /\ old.k # "list") THEN rows
                           ELSE IF Len(parent_array) < f.row_index + 1 THEN withList
                           ELSE IF ConnectRowsFails(withList, child, f.target_connection)
                           THEN rows
                           ELSE ConnectRows(withList, child, f.target_connection)
                /\ UNCHANGED tables
           ELSE IF f.pc = "loop"
           THEN /\ IF Len(parent_array) < f.row_index + 1
                   THEN Call([f EXCEPT !.pc = "created"], CreateEntityInstanceFrame(f.def))
                   ELSE Goto([f EXCEPT !.pc = "check"])
                /\ UNCHANGED <<tables, rows>>
           ELSE IF f.pc = "created"
           THEN (IF \/ ConnectRowsFails(rows, new_entity, parent)
                    \/ ConnectRowsFails(toParent, new_entity, f.target_connection)
                 THEN /\ Abort("ConnectRows failed")
                      /\ UNCHANGED <<tables, rows>>
                 ELSE /\ tables' = [tables EXCEPT ![TableForEntity(tables, f.def)].DataRows =
                                        Append(@, new_entity)]
                      /\ rows' = ConnectRows(toParent, new_entity, f.target_connection)
                      /\ Goto([f EXCEPT !.pc = "process", !.new_entity = new_entity]))
           ELSE IF f.pc = "process"
           THEN /\ Call([f EXCEPT !.pc = "loop"], ProcessTokensInEntityFrame(f.new_entity))
                /\ UNCHANGED <<tables, rows>>
           ELSE /\ IF f.row_index > Len(parent_array)
                   THEN Abort("Failed to generate entity for index")
                   ELSE Return(Undefined)
                /\ UNCHANGED <<tables, rows>>
    /\ UNCHANGED <<schemaVars, unique_keys_values, uuidCount>>

-----------------------------------------------------------------------------
(* Named relationships and assignments *)

JoinNamedRelationshipsFrame(r) ==
    [op |-> "JoinNamedRelationships", pc |-> "start", r |-> r, list |-> <<>>,
     pi |-> 1, vi |-> 1, source_index |-> 0]

ProcessAssignmentFrame(instruction) ==
    [op |-> "ProcessAssignment", instruction |-> instruction]

\* the first row of the list, whatever its field holds
FirstRowWith_First(list, field, value) == IF list = <<>> THEN 0 ELSE list[1]

\* targetTable.DataRows.filter(row => row.DataValues[field] === value)[0], or
\* 0 when no row matches
FirstRowWith(list, field, value) ==
    LET Matches(r) == GetValue(rows[r].DataValues, field) = Str(value)
    IN  IF SelectSeq(list, Matches) = <<>> THEN 0 ELSE SelectSeq(list, Matches)[1]

\* CrudioDataModel.JoinNamedRelationships: one step finds the tables, starts
\* on the next row of the enumerated table, connects the next of its related
\* rows to the target of the next singular value and marks it, collects the
\* rows not marked, or connects the next of them to the default target
JoinNamedRelationships ==
    /\ Running("JoinNamedRelationships")
    /\ LET f == Top
           s == TableForEntity(tables, f.r.FromEntity)
           t == TableForEntity(tables, f.r.ToEntity)
           e == IF f.r.EnumeratedTable.k = "str"
                THEN TableForEntity(tables, f.r.EnumeratedTable.s) ELSE 0
           values == f.r.SingularRelationshipValues
           sourceRows == GetValue(rows[f.list[f.pi]].DataValues, tables[s].TableName)
           singular == IF f.r.SingularRelationshipField.k = "str"
                       THEN FirstRowWith(tables[t].DataRows,
                                         f.r.SingularRelationshipField.s, values[f.vi])
                       ELSE 0
           sourceRow == IF f.source_index < Len(sourceRows.l)
                        THEN sourceRows.l[f.source_index + 1] ELSE 0
           NotSkipped(r) == ~rows[r].skip
           parts == Split(f.r.DefaultTargetQuery.s, ":")
           default == FirstRowWith(tables[t].DataRows, Trim(parts[1]), Trim(parts[2]))
       IN  IF f.pc = "start"
           THEN /\ IF s = 0 \/ t = 0 \/ e = 0 THEN Abort("Table for entity not found")
                   ELSE Goto([f EXCEPT !.pc = "parent", !.list = tables[e].DataRows])
                /\ UNCHANGED rows
           ELSE IF f.pc = "parent"
           THEN /\ IF f.pi > Len(f.list)
                   THEN Goto([f EXCEPT !.pc = "default", !.pi = 1,
                                       !.list = SelectSeq(tables[s].DataRows, NotSkipped)])
                   ELSE IF sourceRows.k # "list" THEN Abort("related rows are no list")
                   ELSE IF Len(values) > Len(sourceRows.l)
                   THEN Abort("the number of singular values exceeds the number of rows")
                   ELSE Goto([f EXCEPT !.pc = "singular", !.vi = 1, !.source_index = 0])
                /\ UNCHANGED rows
           ELSE IF f.pc = "singular"
           THEN (IF f.vi > Len(values)
                 THEN /\ Goto([f EXCEPT !.pc = "parent", !.pi = f.pi + 1])
                      /\ UNCHANGED rows
                 ELSE IF ConnectRowsFails(rows, sourceRow, singular)
                 THEN /\ Abort("ConnectRows failed")
                      /\ UNCHANGED rows
                 ELSE /\ rows' = [ConnectRows(rows, sourceRow, singular)
                                    EXCEPT ![sourceRow].skip = TRUE]
                      /\ Goto([f EXCEPT !.vi = f.vi + 1,
                                        !.source_index = f.source_index + 1]))
           ELSE (IF f.pi > Len(f.list)
                 THEN /\ Return(Undefined)
                      /\ UNCHANGED rows
                 ELSE IF Len(parts) < 2 \/ ConnectRowsFails(rows, f.list[f.pi], default)
                 THEN /\ Abort("ConnectRows failed")
                      /\ UNCHANGED rows
                 ELSE /\ rows' = ConnectRows(rows, f.list[f.pi], default)
                      /\ Goto([f EXCEPT !.pi = f.pi + 1]))
    /\ UNCHANGED <<schemaVars, tables, unique_keys_values, uuidCount>>

\* s.substring(a, b): out-of-range positions clamped, and swapped when a > b
JsSubstring(s, a, b) ==
    LET Clamp(i) == IF i < 0 THEN 0 ELSE IF i > Len(s) THEN Len(s) ELSE i
    IN  IF Clamp(a) <= Clamp(b) THEN SubSeq(s, Clamp(a) + 1, Clamp(b))
        ELSE SubSeq(s, Clamp(b) + 1, Clamp(a))

\* CrudioDataModel.GetObjectFromPath: the object the parts of the path before
\* the last lead to, from obj: [err, table, row], row 0 being the rows of the
\* table and table 0 being null
RECURSIVE WalkParts(_, _)
WalkParts(parts, obj) ==
    LET p == Head(parts)
        start == JsIndexOf(p, "(", 0) + 1
        index == IF start > 0
                 THEN ParseInt(JsSubstring(p, start, JsIndexOf(p, ")", 0)))
                 ELSE Num(0 - 1)
        table == GetTable(tables, IF start > 0 THEN JsSubstring(p, 0, start - 1) ELSE p)
        indexed == index.k = "num" /\ index.n >= 0
    IN  IF Len(parts) <= 1 \/ obj.err # "" THEN obj
        ELSE IF table = 0
        THEN [obj EXCEPT !.err = "Table not found"]
        ELSE IF indexed /\ index.n >= Len(tables[table].DataRows)
        THEN [obj EXCEPT !.err = "no row at the index"]
        ELSE WalkParts(Tail(parts),
                       [err |-> "", table |-> table,
                        row |-> IF indexed THEN tables[table].DataRows[index.n + 1] ELSE 0])

\* a variant of Assigned that adds the text to the text the field holds
Assigned_Appended(entityValues, field, value) ==
    SetValue(entityValues, field, Str(StringOf(GetValue(entityValues, field)) \o value))

\* target.entityValues[target.field] = parts[1]
Assigned(entityValues, field, value) == SetValue(entityValues, field, Str(value))

\* CrudioDataModel.ProcessAssignment with GetObjectFromPath: the field of the
\* row the path leads to is set to the text after the first "="; set on the
\* array of the rows of a table, the property changes no row
ProcessAssignment ==
    /\ Running("ProcessAssignment")
    /\ LET f == Top
           parts == Split(f.instruction, "=")
           path == Split(parts[1], ".")
           target == WalkParts(path, [err |-> "", table |-> 0, row |-> 0])
           field == path[Len(path)]
       IN  /\ IF Len(parts) < 2 THEN Abort("invalid assignment syntax")
              ELSE IF target.err # "" THEN Abort(target.err)
              ELSE IF target.table = 0 THEN Abort("can not retrieve the target object")
              ELSE IF field = <<>> THEN Abort("can not retrieve the target field")
              ELSE Return(Undefined)
           /\ rows' = IF /\ Len(parts) >= 2
                         /\ target.err = ""
                         /\ target.table # 0
                         /\ field # <<>>
                         /\ target.row # 0
                      THEN [rows EXCEPT ![target.row].DataValues =
                                Assigned(@, field, parts[2])]
                      ELSE rows
    /\ UNCHANGED <<schemaVars, tables, unique_keys_values, uuidCount>>

-----------------------------------------------------------------------------
(* The build *)

\* the tables FillDataTables fills: neither abstract nor a join
IsFilled(ts, i) ==
    /\ ~GetEntityDefinition(ts[i].Entity).IsAbstract
    /\ ~GetEntityDefinition(ts[i].Entity).IsManyToManyJoin

\* CrudioDataModel.ConnectOneToManyRelationships: the relationships it joins
OneToManyRelationships ==
    LET NoJoin(e) == ~e.IsManyToManyJoin
        Plain(r) == ~Truthy(r.DefaultTargetQuery) /\ r.RelationshipType = "one"
    IN  SelectSeq(Relationships(SelectSeq(entityDefinitions, NoJoin)), Plain)

\* CrudioDataModel.ConnectManyToManyRelationships: the definitions it joins
ManyToManyJoins ==
    LET IsJoin(e) == e.IsManyToManyJoin
        joins == SelectSeq(entityDefinitions, IsJoin)
    IN  [i \in DOMAIN joins |-> joins[i].Name]

\* CrudioDataModel.ConnectDefaultRelationships: the relationships it joins
DefaultRelationships ==
    LET Named(r) == Truthy(r.DefaultTargetQuery) /\ r.RelationshipType = "one"
    IN  SelectSeq(Relationships(entityDefinitions), Named)

\* CrudioDataModel.FillDataTables, the build the constructor runs: the passes
\* in their order, one step being the creation of the tables, one call of a
\* pass for a table, relationship, join or assignment, or the move to the
\* next pass
FillDataTables ==
    /\ Running("FillDataTables")
    /\ LET f == Top
           created == tables \o CreateInMemoryDataTables
           Fill(i) == IsFilled(created, i)
           rest == [f EXCEPT !.todo = Tail(f.todo)]
       IN  IF f.pc = "create"
           THEN /\ tables' = created
                /\ Goto([f EXCEPT !.pc = "fill",
                                  !.todo = SelectSeq([i \in DOMAIN created |-> i], Fill)])
           ELSE /\ IF f.pc = "fill"
                   THEN (IF f.todo = <<>>
                         THEN Goto([f EXCEPT !.pc = "one", !.todo = OneToManyRelationships])
                         ELSE IF HasNoRows(tables, Head(f.todo))
                         THEN Call(rest, FillTableFrame(Head(f.todo)))
                         ELSE Goto(rest))
                   ELSE IF f.pc = "one"
                   THEN (IF f.todo = <<>>
                         THEN Goto([f EXCEPT !.pc = "tokens",
                                             !.todo = [i \in DOMAIN tables |-> i]])
                         ELSE Call(rest, JoinOneToManyFrame(Head(f.todo))))
                   ELSE IF f.pc = "tokens"
                   THEN (IF f.todo = <<>>
                         THEN Goto([f EXCEPT !.pc = "many", !.todo = ManyToManyJoins])
                         ELSE Call(rest, ProcessAllTokensInTableFrame(Head(f.todo))))
                   ELSE IF f.pc = "many"
                   THEN (IF f.todo = <<>>
                         THEN Goto([f EXCEPT !.pc = "named", !.todo = DefaultRelationships])
                         ELSE Call(rest, JoinManyToManyFrame(Head(f.todo))))
                   ELSE IF f.pc = "named"
                   THEN (IF f.todo = <<>>
                         THEN Goto([f EXCEPT !.pc = "assign", !.todo = assign])
                         ELSE Call(rest, JoinNamedRelationshipsFrame(Head(f.todo))))
                   ELSE (IF f.todo = <<>> THEN Return(Undefined)
                         ELSE Call(rest, ProcessAssignmentFrame(Head(f.todo))))
                /\ UNCHANGED tables
    /\ UNCHANGED <<schemaVars, rows, unique_keys_values, uuidCount>>

-----------------------------------------------------------------------------
(* Schemas as PreProcessRepositoryDefinition leaves them *)

\* a field of a definition, with its options
Field(fieldName, generator, isUnique, isKey) ==
    [fieldName |-> fieldName, generator |-> generator, isUnique |-> isUnique,
     isKey |-> isKey]

\* a relationship of a definition
Relationship(type, from, to, count) ==
    [RelationshipType |-> type, FromEntity |-> from, ToEntity |-> to,
     NumberOfSeededRelations |-> count, DefaultTargetQuery |-> Undefined,
     EnumeratedTable |-> Undefined, SingularRelationshipField |-> Undefined,
     SingularRelationshipValues |-> <<>>, required |-> FALSE]

NoRelationship == Relationship("", <<>>, <<>>, Undefined)

\* CrudioDataModel.CreateEntityDefinition: a concrete definition
EntityDefinition(name, tableName, count, fields, relationships) ==
    [Name |-> name, TableName |-> tableName, IsAbstract |-> FALSE,
     IsManyToManyJoin |-> FALSE, MaxRowCount |-> count, fields |-> fields,
     relationships |-> relationships, SourceRelationship |-> NoRelationship]

\* the key every entity of the syntax guide inherits
IdField == Field(Names.id, Str(<<"[", "u", "u", "i", "d", "]">>), FALSE, TRUE)

-----------------------------------------------------------------------------
(* Schema processing: the registration of the entity types of a schema     *)

\* CrudioUtils.Plural, for the regular nouns of these schemas
Plural(name) == name \o <<"s">>

\* CrudioEntityType.GetField: the field of the name, undefined (0) when there
\* is none, an error when several fields have the name
GetField(def, fieldName) ==
    IF Cardinality(FieldsNamed(def, fieldName)) > 1 THEN Throw("matches multiple fields")
    ELSE IF FieldsNamed(def, fieldName) = {} THEN Ok(0)
    ELSE Ok(CHOOSE i \in FieldsNamed(def, fieldName) : TRUE)

\* CrudioEntityType.KeyField: the fields flagged isKey
KeyFields(def) == {i \in DOMAIN def.fields : def.fields[i].isKey}

\* CrudioEntityType.AddField: the fields of the definition after the call; a
\* field that exists keeps its place and takes the options of the call
AddField(def, fieldName, options) ==
    LET field == GetField(def, fieldName)
    IN  IF field.err # "" THEN field
        ELSE IF field.value = 0 THEN Ok(Append(def.fields, options))
        ELSE Ok([def.fields EXCEPT ![field.value] = options])

\* a variant of AddKey whose field is not flagged isKey
AddKey_NotKey(def, fieldName) ==
    Ok(Append(def.fields, Field(fieldName, Undefined, FALSE, FALSE)))

\* CrudioEntityType.AddKey: the fields of the definition after the call
AddKey(def, fieldName) ==
    IF KeyFields(def) # {} THEN Throw("a key field is already defined")
    ELSE IF GetField(def, fieldName).err # "" THEN GetField(def, fieldName)
    ELSE IF GetField(def, fieldName).value # 0 THEN Throw("is already defined")
    ELSE Ok(Append(def.fields, Field(fieldName, Undefined, FALSE, TRUE)))

\* CrudioDataModel.CreateManyToManyJoinTables: the join definition of a
\* "many" relationship
JoinDefinition(r, tableName) ==
    [Name |-> r.FromEntity \o r.ToEntity, TableName |-> tableName, IsAbstract |-> FALSE,
     IsManyToManyJoin |-> TRUE, MaxRowCount |-> Undefined,
     fields |-> [AddKey([fields |-> <<>>], Names.id).value
                    EXCEPT ![1].generator = IdField.generator],
     relationships |->
        <<[Relationship("one", r.FromEntity \o r.ToEntity, r.FromEntity, Undefined)
              EXCEPT !.required = TRUE],
          [Relationship("one", r.FromEntity \o r.ToEntity, r.ToEntity, Undefined)
              EXCEPT !.required = TRUE]>>,
     SourceRelationship |-> r]

CreateEntityDefinitionFrame(index) ==
    [op |-> "CreateEntityDefinition", pc |-> "create", index |-> index, i |-> 1,
     findex |-> 1]

InheritBaseFieldsFrame(baseEntityName, targetEntity) ==
    [op |-> "InheritBaseFields", baseEntityName |-> baseEntityName,
     targetEntity |-> targetEntity, f |-> 1]

\* the constructor of CrudioDataModel: the schema is processed, then the
\* build runs
constructor ==
    /\ Running("constructor")
    /\ IF Top.pc = "preprocess"
       THEN Call([Top EXCEPT !.pc = "fill"],
                 [op |-> "LoadEntityDefinitions", pc |-> "loop", index |-> 1])
       ELSE IF Top.pc = "fill"
       THEN Call([Top EXCEPT !.pc = "done"], FillDataTablesFrame)
       ELSE Return(Undefined)
    /\ UNCHANGED <<schemaVars, tables, rows, unique_keys_values, uuidCount>>

\* CrudioDataModel.LoadEntityDefinitions: one call of CreateEntityDefinition
\* for every entity of the schema, in the order of its keys, then the join
\* definitions
LoadEntityDefinitions ==
    /\ Running("LoadEntityDefinitions")
    /\ LET f == Top
       IN  IF f.pc = "loop"
           THEN (IF f.index > Len(input.entities)
                 THEN Call([f EXCEPT !.pc = "done"], [op |-> "CreateManyToManyJoinTables"])
                 ELSE Call([f EXCEPT !.index = f.index + 1],
                           CreateEntityDefinitionFrame(f.index)))
           ELSE Return(Undefined)
    /\ UNCHANGED <<schemaVars, tables, rows, unique_keys_values, uuidCount>>

\* CrudioDataModel.CreateEntityDefinition: the type is registered, the fields
\* of its bases are inherited, its own fields are added one call of AddField
\* at a time, and its relationships are kept
CreateEntityDefinition ==
    /\ Running("CreateEntityDefinition")
    /\ LET f == Top
           schema == input.entities[f.index]
           d == DefinitionIndex(schema.name)
           entityType ==
               [Name |-> schema.name, TableName |-> Plural(schema.name),
                IsAbstract |-> schema.abstract, IsManyToManyJoin |-> FALSE,
                MaxRowCount |-> IF ~schema.abstract /\ schema.count = Undefined
                                THEN Num(DefaultNumberOfRowsToGenerate)
                                ELSE schema.count,
                fields |-> <<>>, relationships |-> <<>>,
                SourceRelationship |-> NoRelationship]
           added == AddField(entityDefinitions[d], schema.fields[f.findex].fieldName,
                             schema.fields[f.findex])
           new_rel == [r \in DOMAIN schema.relationships |->
                          [schema.relationships[r] EXCEPT !.FromEntity = schema.name]]
       IN  IF f.pc = "create"
           THEN (IF d # 0
                 THEN Abort("already exists in model") /\ UNCHANGED entityDefinitions
                 ELSE /\ entityDefinitions' = Append(entityDefinitions, entityType)
                      /\ Goto([f EXCEPT !.pc = "inherit"]))
           ELSE IF f.pc = "inherit"
           THEN /\ IF f.i > Len(schema.inherits) THEN Goto([f EXCEPT !.pc = "fields"])
                   ELSE Call([f EXCEPT !.i = f.i + 1],
                             InheritBaseFieldsFrame(schema.inherits[f.i], schema.name))
                /\ UNCHANGED entityDefinitions
           ELSE IF f.findex > Len(schema.fields)
           THEN /\ entityDefinitions' =
                       [entityDefinitions EXCEPT ![d].relationships = @ \o new_rel]
                /\ Return(Undefined)
           ELSE IF added.err # ""
           THEN Abort(added.err) /\ UNCHANGED entityDefinitions
           ELSE /\ entityDefinitions' = [entityDefinitions EXCEPT ![d].fields = added.value]
                /\ Goto([f EXCEPT !.findex = f.findex + 1])
    /\ UNCHANGED <<generators, triggers, assign, rndDen, input, tables, rows,
                   unique_keys_values, uuidCount>>

\* CrudioDataModel.InheritBaseFields: one step copies the next field of the
\* base onto the target, or fails when the target has a field of that name
InheritBaseFields ==
    /\ Running("InheritBaseFields")
    /\ LET f == Top
           b == DefinitionIndex(f.baseEntityName)
           t == DefinitionIndex(f.targetEntity)
           field == entityDefinitions[b].fields[f.f]
           found == GetField(entityDefinitions[t], field.fieldName)
       IN  IF b = 0 THEN Abort("Entity not found") /\ UNCHANGED entityDefinitions
           ELSE IF f.f > Len(entityDefinitions[b].fields)
           THEN Return(Undefined) /\ UNCHANGED entityDefinitions
           ELSE IF ToLowerCase(field.fieldName) = <<"a", "b", "s", "t", "r", "a", "c", "t">>
           THEN Goto([f EXCEPT !.f = f.f + 1]) /\ UNCHANGED entityDefinitions
           ELSE IF found.err # "" THEN Abort(found.err) /\ UNCHANGED entityDefinitions
           ELSE IF found.value # 0
           THEN Abort("InheritFields - can not have fields in child which are already specified in base")
                /\ UNCHANGED entityDefinitions
           ELSE /\ entityDefinitions' =
                       [entityDefinitions EXCEPT ![t].fields = Append(@, field)]
                /\ Goto([f EXCEPT !.f = f.f + 1])
    /\ UNCHANGED <<generators, triggers, assign, rndDen, input, tables, rows,
                   unique_keys_values, uuidCount>>

\* CrudioDataModel.CreateManyToManyJoinTables: a join definition for every
\* "many" relationship of the definitions, after the definitions
CreateManyToManyJoinTables ==
    /\ Running("CreateManyToManyJoinTables")
    /\ LET IsMany(r) == r.RelationshipType = "many"
           m2m == SelectSeq(Relationships(entityDefinitions), IsMany)
       IN  entityDefinitions' = entityDefinitions \o
              [r \in DOMAIN m2m |->
                  JoinDefinition(m2m[r], Plural(m2m[r].FromEntity \o m2m[r].ToEntity))]
    /\ Return(Undefined)
    /\ UNCHANGED <<generators, triggers, assign, rndDen, input, tables, rows,
                   unique_keys_values, uuidCount>>

-----------------------------------------------------------------------------
(* Runs of the token engine on one expression *)

Tok(name) == <<"[">> \o name \o <<"]">>

\* the generators of the token-engine runs ("Technical Data" of the syntax
\* guide, a two-valued list with a composite over it, and two-valued lists
\* with one and with two separators at either end)
TokenGenerators ==
    << [name |-> Names.hex_digit,
        values |-> <<"0", ";", "1", ";", "2", ";", "3", ";", "4", ";", "5", ";",
                     "6", ";", "7", ";", "8", ";", "9", ";", "A", ";", "B", ";",
                     "C", ";", "D", ";", "E", ";", "F", ";">>],
       [name |-> Names.hex, values |-> Tok(Names.hex_digit) \o Tok(Names.hex_digit)],
       [name |-> Names.bit, values |-> <<"0", ";", "1">>],
       [name |-> Names.pair, values |-> Tok(Names.bit) \o <<"-">> \o Tok(Names.bit)],
       [name |-> Names.role, values |-> <<";", "a", ";", "b", ";">>],
       [name |-> Names.tag, values |-> <<";", ";", "a", ";", "b", ";", ";">>] >>

\* the longest expression of the small runs, in tokens
MaxTokens == 3

RECURSIVE Expressions(_, _)
Expressions(names, n) ==
    IF n = 0 THEN {<<>>}
    ELSE {Tok(g) \o e : g \in names, e \in Expressions(names, n - 1)}

TokenExpressions ==
    UNION {Expressions({Names.bit, Names.pair}, n) : n \in 1..MaxTokens}
    \cup Expressions({Names.hex, Names.hex_digit}, 1)
    \cup Expressions({Names.hex, Names.hex_digit}, 2)
    \cup Expressions({Names.role, Names.tag}, 1)
    \cup {<<"x">>, Tok(Names.bit) \o <<"x">>, <<"x">> \o Tok(Names.pair) \o <<"y">> \o Tok(Names.bit)}

InitTokens ==
    /\ input \in TokenExpressions
    /\ generators = TokenGenerators
    /\ entityDefinitions = <<>>
    /\ triggers = <<>>
    /\ assign = <<>>
    /\ tables = <<>>
    /\ rows = <<>>
    /\ unique_keys_values = {}
    /\ stack = <<ReplaceTokensFrame(input, FALSE, <<>>)>>
    /\ ret = Undefined
    /\ error = ""
    /\ uuidCount = 0
    /\ rndDen = TokenDen

NextTokens == ReplaceTokens

SpecTokens == InitTokens /\ [][NextTokens]_vars

-----------------------------------------------------------------------------
(* Runs of the token engine on one range generator "low>high" *)

\* the lows of the small ranges are -MaxLow..MaxLow, their widths 1..MaxWidth
MaxLow == 3
MaxWidth == 4

\* "day", "month", "positive_byte" and "byte" of the syntax guide, and small ranges
RangeInputs ==
    {[low |-> 1, high |-> 28], [low |-> 1, high |-> 12],
     [low |-> 1, high |-> 255], [low |-> 0, high |-> 255]}
    \cup {[low |-> lo, high |-> lo + w] : lo \in (0 - MaxLow)..MaxLow, w \in 1..MaxWidth}

RangeText(in) == IntToString(in.low) \o <<">">> \o IntToString(in.high)

InitRange ==
    /\ input \in RangeInputs
    /\ generators = <<[name |-> Names.range, values |-> RangeText(input)]>>
    /\ entityDefinitions = <<>>
    /\ triggers = <<>>
    /\ assign = <<>>
    /\ tables = <<>>
    /\ rows = <<>>
    /\ unique_keys_values = {}
    /\ stack = <<ReplaceTokensFrame(Tok(Names.range), FALSE, <<>>)>>
    /\ ret = Undefined
    /\ error = ""
    /\ uuidCount = 0
    /\ rndDen = RangeDen

NextRange == ReplaceTokens

SpecRange == InitRange /\ [][NextRange]_vars

-----------------------------------------------------------------------------
(* Builds of a schema of one type whose count is a generator reference *)

\* the value lists of the generator the count refers to, and the generators
\* of the unique field: the list token, or a plain literal
FillInputs ==
    LET CountLists ==
            { <<"a", ";", "b", ";", "c", ";">>,
              <<"c", "a", "r", "s", ";", "p", "e", "t", "s", ";", "f", "o", "o", "d">>,
              <<"a", ";", "b">>,
              <<";", "a", ";", "b", ";">>,
              <<"a">>,
              <<"a", ";", "b", ";">> }
    IN  [list : CountLists, generator : {Tok(Names.tag), <<"x">>}]

\* "Specify Required Number of Objects" of the syntax guide: a Tag type
\* whose count is "[tag]" and whose name is unique
InitFill ==
    /\ input \in FillInputs
    /\ generators = <<[name |-> Names.tag, values |-> input.list]>>
    /\ entityDefinitions =
          <<EntityDefinition(Names.Tag, Names.Tags, Str(Tok(Names.tag)),
                             <<Field(Names.name, Str(input.generator), TRUE, FALSE)>>,
                             <<>>)>>
    /\ triggers = <<>>
    /\ assign = <<>>
    /\ tables = <<>>
    /\ rows = <<>>
    /\ unique_keys_values = {}
    /\ stack = <<FillDataTablesFrame>>
    /\ ret = Undefined
    /\ error = ""
    /\ uuidCount = 0
    /\ rndDen = BuildDen

NextFill ==
    \/ FillDataTables
    \/ FillTable
    \/ CreateEntityInstance
    \/ ProcessAllTokensInTable
    \/ ProcessTokensInEntity
    \/ ReplaceTokens

SpecFill == InitFill /\ [][NextFill]_vars

-----------------------------------------------------------------------------
(* Builds of a schema of one type with two fields over one list generator *)

\* the most rows of the Person table
MaxPeople == 2

\* "Using Lookup and Cleanup" of the syntax guide: the field lists of a
\* Person whose email looks its name up, declared after or before the name,
\* and of a Person with two unique fields, or one
PersonInputs ==
    LET name == Field(Names.name, Str(Tok(Names.name)), FALSE, FALSE)
        Email(params) == Field(Names.email, Str(<<"[">> \o params \o Names.name \o <<"]">>),
                               FALSE, FALSE)
        Unique(fieldName) == Field(fieldName, Str(Tok(Names.name)), TRUE, FALSE)
    IN  [count : 1..MaxPeople,
         fields : {<<name, Email(<<"!">>)>>, <<Email(<<"!">>), name>>,
                   <<name, Email(<<"!", "~">>)>>, <<Email(<<"!", "~">>), name>>,
                   <<Unique(Names.name), Unique(Names.code)>>,
                   <<Unique(Names.code), name>>}]

InitPerson ==
    /\ input \in PersonInputs
    /\ generators = <<[name |-> Names.name, values |-> <<"A", " ", "b", ";", "C">>]>>
    /\ entityDefinitions =
          <<EntityDefinition(Names.Person, Names.People, Num(input.count),
                             input.fields, <<>>)>>
    /\ triggers = <<>>
    /\ assign = <<>>
    /\ tables = <<>>
    /\ rows = <<>>
    /\ unique_keys_values = {}
    /\ stack = <<FillDataTablesFrame>>
    /\ ret = Undefined
    /\ error = ""
    /\ uuidCount = 0
    /\ rndDen = BuildDen

SpecPerson == InitPerson /\ [][NextFill]_vars

-----------------------------------------------------------------------------
(* Builds of a schema with one "one" relationship, User to Organisation *)

\* the most rows of the two tables
MaxUsers == 3
MaxOrganisations == 2

OneInputs == [users : 0..MaxUsers, organisations : 0..MaxOrganisations]

\* "Describing Relationships" of the syntax guide: every user has one
\* organisation
InitOne ==
    /\ input \in OneInputs
    /\ generators = <<>>
    /\ entityDefinitions =
          <<EntityDefinition(Names.Organisation, Names.Organisations, Num(input.organisations),
                             <<IdField>>, <<>>),
            EntityDefinition(Names.User, Names.Users, Num(input.users), <<IdField>>,
                             <<Relationship("one", Names.User, Names.Organisation, Undefined)>>)>>
    /\ triggers = <<>>
    /\ assign = <<>>
    /\ tables = <<>>
    /\ rows = <<>>
    /\ unique_keys_values = {}
    /\ stack = <<FillDataTablesFrame>>
    /\ ret = Undefined
    /\ error = ""
    /\ uuidCount = 0
    /\ rndDen = BuildDen

NextOne ==
    \/ FillDataTables
    \/ FillTable
    \/ CreateEntityInstance
    \/ JoinOneToMany
    \/ ProcessAllTokensInTable
    \/ ProcessTokensInEntity
    \/ ReplaceTokens

SpecOne == InitOne /\ [][NextOne]_vars

-----------------------------------------------------------------------------
(* Builds of a schema with named relationships: every user has one         *)
(* organisation, the first users of an organisation take the roles of the  *)
(* singular values, the others the default role                            *)

\* the rows of the tables, the singular values of the relationship to the
\* roles, and whether User has a second named relationship, to Tag
NamedInputs ==
    [users : 1..MaxUsers, organisations : 1..MaxOrganisations,
     values : {<<Names.CEO>>, <<Names.CEO, Names.CFO>>}, second : BOOLEAN]

\* the relationships of User: the plain one to Organisation, the named one to
\* OrganisationRole (default "name:Staff"), and the named one to Tag
\* (singular "a", default "name:a")
InitNamed ==
    /\ input \in NamedInputs
    /\ generators = <<[name |-> Names.role,
                       values |-> Names.CEO \o <<";">> \o Names.CFO \o <<";">> \o Names.Staff],
                      [name |-> Names.tag, values |-> <<"a", ";">>]>>
    /\ entityDefinitions =
          <<EntityDefinition(Names.Organisation, Names.Organisations,
                             Num(input.organisations), <<>>, <<>>),
            EntityDefinition(Names.OrganisationRole, Names.OrganisationRoles, Num(3),
                             <<Field(Names.name, Str(Tok(Names.role)), FALSE, FALSE)>>, <<>>),
            EntityDefinition(Names.Tag, Names.Tags, Str(Tok(Names.tag)),
                             <<Field(Names.name, Str(Tok(Names.tag)), FALSE, FALSE)>>, <<>>),
            EntityDefinition(Names.User, Names.Users, Num(input.users), <<>>,
               <<Relationship("one", Names.User, Names.Organisation, Undefined),
                 [Relationship("one", Names.User, Names.OrganisationRole, Undefined)
                    EXCEPT !.DefaultTargetQuery = Str(Names.name \o <<":">> \o Names.Staff),
                           !.EnumeratedTable = Str(Names.Organisation),
                           !.SingularRelationshipField = Str(Names.name),
                           !.SingularRelationshipValues = input.values]>>
               \o (IF input.second
                   THEN <<[Relationship("one", Names.User, Names.Tag, Undefined)
                             EXCEPT !.DefaultTargetQuery = Str(Names.name \o <<":", "a">>),
                                    !.EnumeratedTable = Str(Names.Organisation),
                                    !.SingularRelationshipField = Str(Names.name),
                                    !.SingularRelationshipValues = <<<<"a">>>>]>>
                   ELSE <<>>))>>
    /\ triggers = <<>>
    /\ assign = <<>>
    /\ tables = <<>>
    /\ rows = <<>>
    /\ unique_keys_values = {}
    /\ stack = <<FillDataTablesFrame>>
    /\ ret = Undefined
    /\ error = ""
    /\ uuidCount = 0
    /\ rndDen = BuildDen

NextNamed ==
    \/ FillDataTables
    \/ FillTable
    \/ CreateEntityInstance
    \/ JoinOneToMany
    \/ ProcessAllTokensInTable
    \/ ProcessTokensInEntity
    \/ ReplaceTokens
    \/ JoinNamedRelationships

SpecNamed == InitNamed /\ [][NextNamed]_vars

-----------------------------------------------------------------------------
(* Builds of a schema with one "many" relationship, Blog to Tag *)

\* the most rows of the two tables, and the most join rows per blog
MaxBlogs == 2
MaxTags == 2
MaxSeeded == 2

ManyInputs == [blogs : 1..MaxBlogs, tags : 0..MaxTags, count : 1..MaxSeeded]

\* the relationship of the blogs to their tags
BlogToTag(count) == Relationship("many", Names.Blog, Names.Tag, Num(count))

\* "Describing Relationships" of the syntax guide: a blog has many tags
InitMany ==
    /\ input \in ManyInputs
    /\ generators = <<>>
    /\ entityDefinitions =
          <<EntityDefinition(Names.Blog, Names.Blogs, Num(input.blogs), <<IdField>>,
                             <<BlogToTag(input.count)>>),
            EntityDefinition(Names.Tag, Names.Tags, Num(input.tags), <<IdField>>, <<>>),
            JoinDefinition(BlogToTag(input.count), Names.BlogTags)>>
    /\ triggers = <<>>
    /\ assign = <<>>
    /\ tables = <<>>
    /\ rows = <<>>
    /\ unique_keys_values = {}
    /\ stack = <<FillDataTablesFrame>>
    /\ ret = Undefined
    /\ error = ""
    /\ uuidCount = 0
    /\ rndDen = BuildDen

NextMany ==
    \/ FillDataTables
    \/ FillTable
    \/ CreateEntityInstance
    \/ JoinManyToMany
    \/ ProcessAllTokensInTable
    \/ ProcessTokensInEntity
    \/ ReplaceTokens

SpecMany == InitMany /\ [][NextMany]_vars

-----------------------------------------------------------------------------
(* Builds of the organisations of the syntax guide: the users of an        *)
(* organisation are created by the scripts of its trigger and connected to *)
(* roles                                                                   *)

\* the highest first index of a script, and the most indices after it
MaxFirst == 1
MaxSpan == 1

\* the range scripts of the runs, as <<first, last>>
Ranges == {<<first, first + span>> : first \in 0..MaxFirst, span \in 0..MaxSpan}

\* the scripts of the trigger: the CEO script, a range script, or the CEO
\* script with a range script for the users after the first; User declaring
\* its relationships as in the syntax guide, or not
TriggerInputs ==
    [organisations : 1..MaxOrganisations, declared : BOOLEAN, ceo : {TRUE},
     range : {<<>>} \cup {r \in Ranges : r[1] >= 1}]
    \cup [organisations : 1..MaxOrganisations, declared : BOOLEAN, ceo : {FALSE},
          range : Ranges]

\* "Users(0).OrganisationRole?name=CEO" and
\* "Users(first-last).OrganisationRole?name=Staff"
TriggerScripts(in) ==
    LET Script(index, value) ==
            Names.Users \o <<"(">> \o index \o <<")", ".">> \o Names.OrganisationRole
                \o <<"?", "n", "a", "m", "e", "=">> \o value
        first == NatToString(in.range[1])
        last == NatToString(in.range[2])
    IN  (IF in.ceo THEN <<Script(<<"0">>, Names.CEO)>> ELSE <<>>)
        \o (IF in.range = <<>> THEN <<>>
            ELSE <<Script(first \o <<"-">> \o last, Names.Staff)>>)

\* the relationships of the User of the syntax guide, when it declares them
UserRelationships(in) ==
    IF in.declared
    THEN <<Relationship("one", Names.User, Names.Organisation, Undefined),
           Relationship("one", Names.User, Names.OrganisationRole, Undefined)>>
    ELSE <<>>

\* "Scripts" of the syntax guide: organisations whose trigger creates their
\* users, no users of their own, and the roles CEO and Staff
InitTrigger ==
    /\ input \in TriggerInputs
    /\ generators = <<[name |-> Names.role, values |-> Names.CEO \o <<";">> \o Names.Staff \o <<";">>]>>
    /\ entityDefinitions =
          <<EntityDefinition(Names.Organisation, Names.Organisations, Num(input.organisations),
                             <<>>, <<>>),
            EntityDefinition(Names.User, Names.Users, Num(0), <<>>, UserRelationships(input)),
            EntityDefinition(Names.OrganisationRole, Names.OrganisationRoles, Str(Tok(Names.role)),
                             <<Field(Names.name, Str(Tok(Names.role)), TRUE, FALSE)>>, <<>>)>>
    /\ triggers = <<[entity |-> Names.Organisation, scripts |-> TriggerScripts(input)]>>
    /\ assign = <<>>
    /\ tables = <<>>
    /\ rows = <<>>
    /\ unique_keys_values = {}
    /\ stack = <<FillDataTablesFrame>>
    /\ ret = Undefined
    /\ error = ""
    /\ uuidCount = 0
    /\ rndDen = BuildDen

NextTrigger ==
    \/ FillDataTables
    \/ FillTable
    \/ CreateEntityInstance
    \/ ExecuteTrigger
    \/ ConnectChildWithRelatedEntity
    \/ JoinOneToMany
    \/ ProcessAllTokensInTable
    \/ ProcessTokensInEntity
    \/ ReplaceTokens

SpecTrigger == InitTrigger /\ [][NextTrigger]_vars

-----------------------------------------------------------------------------
(* Builds with assignments: organisations whose trigger creates one user   *)
(* each, and a list of assignment instructions                              *)

\* the most instructions of a list
MaxAssign == 2

\* the lists of instructions such as "Users(0).name=Bob": paths to the name
\* of a user, in the table of the users (with an index that is a number, or
\* none) or through the users of the second organisation, and the literals
AssignInputs ==
    LET User(index) == Names.Users \o <<"(">> \o index \o <<")">>
        Paths == {User(<<"0">>), User(<<"1">>), User(<<"x">>),
                  Names.Organisations \o <<"(", "1", ")", ".">> \o User(<<"0">>)}
        Literals == {<<"B", "o", "b">>, <<"a", "=", "b">>}
        Instructions == {path \o <<".">> \o Names.name \o <<"=">> \o literal :
                            path \in Paths, literal \in Literals}
    IN  UNION {[1..n -> Instructions] : n \in 0..MaxAssign}

\* the script of the organisations is "Users(0).OrganisationRole?name=CEO",
\* or the same with the index x
InitAssign ==
    /\ \E a \in AssignInputs : \E index \in {"0", "x"} :
          input = [organisations |-> MaxOrganisations, index |-> index, instructions |-> a]
    /\ generators = <<[name |-> Names.role, values |-> Names.CEO \o <<";">>]>>
    /\ entityDefinitions =
          <<EntityDefinition(Names.Organisation, Names.Organisations, Num(input.organisations),
                             <<>>, <<>>),
            EntityDefinition(Names.User, Names.Users, Num(0),
                             <<Field(Names.name, Str(Tok(Names.role)), FALSE, FALSE)>>, <<>>),
            EntityDefinition(Names.OrganisationRole, Names.OrganisationRoles, Str(Tok(Names.role)),
                             <<Field(Names.name, Str(Tok(Names.role)), TRUE, FALSE)>>, <<>>)>>
    /\ triggers = <<[entity |-> Names.Organisation,
                     scripts |-> <<Names.Users \o <<"(", input.index, ")", ".">>
                                     \o Names.OrganisationRole
                                     \o <<"?", "n", "a", "m", "e", "=">> \o Names.CEO>>]>>
    /\ assign = input.instructions
    /\ tables = <<>>
    /\ rows = <<>>
    /\ unique_keys_values = {}
    /\ stack = <<FillDataTablesFrame>>
    /\ ret = Undefined
    /\ error = ""
    /\ uuidCount = 0
    /\ rndDen = BuildDen

NextAssign ==
    \/ FillDataTables
    \/ FillTable
    \/ CreateEntityInstance
    \/ ExecuteTrigger
    \/ ConnectChildWithRelatedEntity
    \/ ProcessAllTokensInTable
    \/ ProcessTokensInEntity
    \/ ReplaceTokens
    \/ ProcessAssignment

SpecAssign == InitAssign /\ [][NextAssign]_vars

-----------------------------------------------------------------------------
(* Constructions from a schema: Person with its heirs User, Client and      *)
(* Manager, and Blog and Tag with their "many" relationships                *)

\* the most "many" relationships between Blog and Tag
MaxMany == 2

\* the largest count the schema declares for User
MaxUserCount == 2

\* whether Person is abstract, what Client declares besides what it inherits
\* (nothing, the inherited field name again, or a key of its own), whether
\* Manager inherits from both User and Client, the "many" relationships, and
\* the count of User: an integer, or none
SchemaInputs ==
    [abstract : BOOLEAN, declares : {"", "name", "code"}, diamond : BOOLEAN,
     many : 0..MaxMany, count : {Num(n) : n \in 0..MaxUserCount} \cup {Undefined}]

\* the entities of the schema, in the order of its keys
SchemaEntities(in) ==
    LET EntitySchema(name, abstract, inherits, fields, relationships) ==
            [name |-> name, abstract |-> abstract, count |-> Num(1),
             inherits |-> inherits, fields |-> fields, relationships |-> relationships]
        Declared == IF in.declares = "name"
                    THEN <<Field(Names.name, Str(<<"y">>), FALSE, FALSE)>>
                    ELSE IF in.declares = "code"
                    THEN <<Field(Names.code, IdField.generator, FALSE, TRUE)>>
                    ELSE <<>>
        BlogTags == IF in.many > 0 THEN <<Relationship("many", <<>>, Names.Tag, Num(1))>>
                    ELSE <<>>
        TagBlogs == IF in.many > 1 THEN <<Relationship("many", <<>>, Names.Blog, Num(1))>>
                    ELSE <<>>
    IN  << EntitySchema(Names.Person, in.abstract, <<>>,
                        <<IdField,
                          Field(Names.name, Str(<<"x">>), FALSE, FALSE)>>, <<>>),
           [EntitySchema(Names.User, FALSE, <<Names.Person>>, <<>>, <<>>)
               EXCEPT !.count = in.count],
           EntitySchema(Names.Client, FALSE, <<Names.Person>>, Declared, <<>>) >>
        \o (IF in.diamond
            THEN <<EntitySchema(Names.Manager, FALSE, <<Names.User, Names.Client>>,
                                <<>>, <<>>)>>
            ELSE <<>>)
        \o << EntitySchema(Names.Blog, FALSE, <<>>,
                           <<IdField>>, BlogTags),
              EntitySchema(Names.Tag, FALSE, <<>>,
                           <<IdField>>, TagBlogs) >>

InitSchema ==
    /\ \E in \in SchemaInputs :
          input = [abstract |-> in.abstract, declares |-> in.declares,
                   diamond |-> in.diamond, many |-> in.many, count |-> in.count,
                   entities |-> SchemaEntities(in)]
    /\ generators = <<>>
    /\ entityDefinitions = <<>>
    /\ triggers = <<>>
    /\ assign = <<>>
    /\ tables = <<>>
    /\ rows = <<>>
    /\ unique_keys_values = {}
    /\ stack = <<[op |-> "constructor", pc |-> "preprocess"]>>
    /\ ret = Undefined
    /\ error = ""
    /\ uuidCount = 0
    /\ rndDen = BuildDen

NextSchema ==
    \/ constructor
    \/ LoadEntityDefinitions
    \/ CreateEntityDefinition
    \/ InheritBaseFields
    \/ CreateManyToManyJoinTables
    \/ FillDataTables
    \/ FillTable
    \/ CreateEntityInstance
    \/ ProcessAllTokensInTable
    \/ ProcessTokensInEntity
    \/ ReplaceTokens
    \/ JoinManyToMany

SpecSchema == InitSchema /\ [][NextSchema]_vars

-----------------------------------------------------------------------------
(* Claims about filling a table *)

\* the literal values of a list once leading and trailing separators are stripped
LiteralValues(list) == Split(StripSeparators(list), ";")

\* the rows FillTable handed to the table of a type whose count is "[g]"
GeneratorBound(t) ==
    /\ GetEntityDefinition(tables[t].Entity).MaxRowCount.k = "str"
    /\ tables[t].DataRows # <<>>

\* C1: a type whose count is a generator reference "[g]" gets exactly as many
\* rows from FillTable as the list of g has literal values once leading and
\* trailing separators are stripped ("a;b;c;" gives 3, "cars;pets;food" gives 3)
C1_RowCountIsValueCount ==
    \A t \in DOMAIN tables :
        GeneratorBound(t) =>
            LET g == RemoveChars(GetEntityDefinition(tables[t].Entity).MaxRowCount.s,
                                 {"[", "]"})
            IN  Len(tables[t].DataRows) = Len(LiteralValues(GetGenerator(g).value.s))

\* the build has run to its end and no exception was thrown
BuildSucceeded == Finished /\ error = ""

\* two rows hold values of the field that are equal after lower-casing and trimming
SameUniqueValue(r1, r2, field) ==
    LET v1 == GetValue(rows[r1].DataValues, field)
        v2 == GetValue(rows[r2].DataValues, field)
    IN  v1.k = "str" /\ v2.k = "str" /\ UniqueKey(v1.s) = UniqueKey(v2.s)

\* C2: after a build that succeeds, no two rows of a table hold values of a
\* unique field that are equal after lower-casing and trimming, whatever the
\* generator of the field is (tokens or a plain literal)
C2_UniqueFieldsNeverRepeat ==
    BuildSucceeded =>
        \A t \in DOMAIN tables :
            \A i, j \in DOMAIN tables[t].DataRows :
                \A k \in DOMAIN GetEntityDefinition(tables[t].Entity).fields :
                    LET fd == GetEntityDefinition(tables[t].Entity).fields[k]
                    IN  (i < j /\ fd.isUnique) =>
                            ~SameUniqueValue(tables[t].DataRows[i], tables[t].DataRows[j],
                                             fd.fieldName)

-----------------------------------------------------------------------------
(* Claims about the relationship passes *)

\* the rows of the table of an entity
RowsOf(entity) ==
    IF TableForEntity(tables, entity) = 0 THEN <<>>
    ELSE tables[TableForEntity(tables, entity)].DataRows

\* the default one-to-many pass of FillDataTables is over
OneToManyPassDone ==
    /\ error = ""
    /\ \/ Finished
       \/ stack[1].pc \in {"tokens", "many", "named", "assign"}

\* the target row is the forward pointer of a row of the source table
IsPointedAt(r, targetRow) ==
    \E i \in DOMAIN RowsOf(r.FromEntity) :
        GetValue(rows[RowsOf(r.FromEntity)[i]].DataValues, r.ToEntity) = Ref(targetRow)

\* C7: after the default one-to-many pass for a "one" relationship from S to
\* T, when the S table has at least as many rows as the T table, every row of
\* the T table is the forward pointer of at least one S row
C7_EveryTargetIsReferenced ==
    OneToManyPassDone =>
        \A k \in DOMAIN OneToManyRelationships :
            LET r == OneToManyRelationships[k]
            IN  Len(RowsOf(r.FromEntity)) >= Len(RowsOf(r.ToEntity)) =>
                    \A i \in DOMAIN RowsOf(r.ToEntity) : IsPointedAt(r, RowsOf(r.ToEntity)[i])

\* three users were spread over two organisations, the third one at random
C7_Witness ==
    /\ OneToManyPassDone
    /\ Len(RowsOf(Names.User)) = 3
    /\ Len(RowsOf(Names.Organisation)) = 2
    /\ GetValue(rows[RowsOf(Names.User)[3]].DataValues, Names.Organisation) = Ref(RowsOf(Names.Organisation)[2])
    /\ \A i \in 1..2 : IsPointedAt(OneToManyRelationships[1], RowsOf(Names.Organisation)[i])

\* the join rows of the join table of the blogs and tags
JoinRows == RowsOf(Names.Blog \o Names.Tag)

\* the foreign keys of a join row
SourceKey(j) == GetValue(rows[j].DataValues, Names.Blog)
TargetKey(j) == GetValue(rows[j].DataValues, Names.Tag)

\* C5: after many-to-many join synthesis no two join rows carry the same
\* (source id, target id) pair
C5_NoDuplicateJoinPair ==
    BuildSucceeded =>
        \A i, j \in DOMAIN JoinRows :
            i < j => \/ SourceKey(JoinRows[i]) # SourceKey(JoinRows[j])
                     \/ TargetKey(JoinRows[i]) # TargetKey(JoinRows[j])

\* the least of two numbers
Least(a, b) == IF a < b THEN a ELSE b

\* C6: after many-to-many join synthesis with join count k, every id of the
\* source table is the source key of exactly min(k, targetCount) join rows
C6_JoinRowsPerSource ==
    BuildSucceeded =>
        \A i \in DOMAIN RowsOf(Names.Blog) :
            Cardinality({j \in DOMAIN JoinRows :
                            SourceKey(JoinRows[j]) = GetValue(rows[RowsOf(Names.Blog)[i]].DataValues, Names.id)})
                = Least(input.count, Len(RowsOf(Names.Tag)))

\* two blogs got one join row each, the join count being 2 and the tags 1
C6_Witness ==
    /\ BuildSucceeded
    /\ input = [blogs |-> 2, tags |-> 1, count |-> 2]
    /\ Len(JoinRows) = 2
    /\ SourceKey(JoinRows[1]) = GetValue(rows[RowsOf(Names.Blog)[1]].DataValues, Names.id)
    /\ SourceKey(JoinRows[2]) = GetValue(rows[RowsOf(Names.Blog)[2]].DataValues, Names.id)
    /\ TargetKey(JoinRows[2]) = GetValue(rows[RowsOf(Names.Tag)[1]].DataValues, Names.id)

-----------------------------------------------------------------------------
(* Claims about trigger scripts *)

\* the Users list of a row
UsersOf(r) ==
    IF GetValue(rows[r].DataValues, Names.Users).k = "list"
    THEN GetValue(rows[r].DataValues, Names.Users).l ELSE <<>>

\* the role the row points to is the role of the name
HasRole(r, roleName) ==
    LET p == GetValue(rows[r].DataValues, Names.OrganisationRole)
    IN  p.k = "ref" /\ GetValue(rows[p.n].DataValues, Names.name) = Str(roleName)

\* C3: in the output of a build whose trigger for Organisation contains the
\* script Users(0).OrganisationRole?name=CEO, the user at index 0 of the Users
\* list of every organisation points to the role whose name is "CEO"
C3_FirstUserIsCeo ==
    (BuildSucceeded /\ input.ceo) =>
        \A i \in DOMAIN RowsOf(Names.Organisation) :
            /\ UsersOf(RowsOf(Names.Organisation)[i]) # <<>>
            /\ HasRole(UsersOf(RowsOf(Names.Organisation)[i])[1], Names.CEO)

\* ExecuteTrigger has made the last call of the loop of a range script
RangeScriptExecuted ==
    /\ Running("ExecuteTrigger")
    /\ Top.pc = "connect"
    /\ Top.query = <<"n", "a", "m", "e", "=">> \o Names.Staff
    /\ Top.ri > input.range[2]

\* C4: a range script Field(start-end).Rel?f=v executed on a parent connects
\* the child at every index from start to end of the parent's list to the row
\* the query finds, creating the children that miss, the list having at least
\* end + 1 elements afterwards
C4_RangeConnectsEveryIndex ==
    RangeScriptExecuted =>
        /\ Len(UsersOf(Top.parent_entity)) >= input.range[2] + 1
        /\ \A i \in input.range[1]..input.range[2] :
              HasRole(UsersOf(Top.parent_entity)[i + 1], Names.Staff)

-----------------------------------------------------------------------------
(* Claims about the token engine *)

\* C8: ReplaceTokens goes on until no [...] token remains: when it returns
\* without an exception, for an expression over acyclic generators, the string
\* it returns holds no bracket token, wherever the composite generators stand
\* among the tokens of the expression.
C8_NoTokenLeft ==
    (Finished /\ error = "") => MatchTokens(ret.s) = <<>>

HexChars == {"0", "1", "2", "3", "4", "5", "6", "7", "8", "9",
             "A", "B", "C", "D", "E", "F"}

HexHex == Tok(Names.hex) \o Tok(Names.hex)

\* C9: with hex_digit = "0;1;...;F;" and hex = "[hex_digit][hex_digit]", the
\* expression "[hex][hex]" always resolves, without an exception, to a string of
\* exactly 4 characters, each one of 0-9 or A-F, with no bracket left.
C9_HexHexIsFourHexChars ==
    (Finished /\ input = HexHex) =>
        /\ error = ""
        /\ ret.k = "str"
        /\ Len(ret.s) = 4
        /\ Range(ret.s) \subseteq HexChars

\* a resolution of "[hex][hex]" that picked the last digit, the first digit
\* and two digits between
C9_Witness ==
    /\ Finished
    /\ input = HexHex
    /\ ret = Str(<<"F", "0", "9", "A">>)

-----------------------------------------------------------------------------
(* Claims about the retry budget of unique values *)

\* the step in which ProcessAllTokensInTable gives up on a row
RetryBudgetError ==
    /\ error = ""
    /\ error' = "Failed to create unique value"

\* C11: the error of the retry budget is raised for a row only after 1000
\* attempts to resolve the whole row have each been rejected
C11_BudgetIsThousandAttempts ==
    [][RetryBudgetError => Top.rejected = 1000]_vars

-----------------------------------------------------------------------------
(* Claims about the registration of entity types *)

\* the construction came to its end without an error
Constructed == Finished /\ error = ""

\* the schema is processed and the build has not failed: the constructor is
\* past PreProcessRepositoryDefinition
SchemaProcessed ==
    /\ error = ""
    /\ \/ Finished
       \/ /\ stack[1].op = "constructor"
          /\ \/ stack[1].pc = "done"
             \/ stack[1].pc = "fill" /\ Len(stack) = 1

\* the entity of the schema declares a field that one of its bases has
Redeclares(schema) ==
    \E b \in DOMAIN schema.inherits, f \in DOMAIN schema.fields :
        /\ DefinitionIndex(schema.inherits[b]) # 0
        /\ FieldsNamed(GetEntityDefinition(schema.inherits[b]),
                       schema.fields[f].fieldName) # {}

\* C12: a schema with an entity that declares a field of the name of a field
\* it inherits is not registered: the construction fails
C12_RedeclaredFieldFails ==
    Constructed => \A e \in DOMAIN input.entities : ~Redeclares(input.entities[e])

\* C13: a type that inherits from two bases which both inherited their
\* fields from one ancestor is registered without error, and has each field
\* of the ancestor once
C13_DiamondIsRegistered ==
    (Finished /\ input.diamond) =>
        /\ error = ""
        /\ DefinitionIndex(Names.Manager) # 0
        /\ \A f \in DOMAIN GetEntityDefinition(Names.Person).fields :
              Cardinality(FieldsNamed(GetEntityDefinition(Names.Manager),
                                      GetEntityDefinition(Names.Person).fields[f].fieldName)) = 1

\* C14: no entity type has two fields flagged isKey
C14_AtMostOneKey ==
    \A d \in DOMAIN entityDefinitions : Cardinality(KeyFields(entityDefinitions[d])) <= 1

\* the "many" relationships the schema declares, as registered
DeclaredMany ==
    LET Plain == {d \in DOMAIN entityDefinitions : ~entityDefinitions[d].IsManyToManyJoin}
        Of(d) == {entityDefinitions[d].relationships[i] :
                     i \in DOMAIN entityDefinitions[d].relationships}
    IN  {r \in UNION {Of(d) : d \in Plain} : r.RelationshipType = "many"}

\* the join definitions that came from the relationship
JoinsOf(r) ==
    {d \in DOMAIN entityDefinitions :
        entityDefinitions[d].IsManyToManyJoin /\ entityDefinitions[d].SourceRelationship = r}

\* the join definition is as the claim says: a key id generated by "[uuid]",
\* and two required "one" relationships, one to each end of r
IsJoinOf(def, r) ==
    /\ \E f \in DOMAIN def.fields :
          /\ def.fields[f].fieldName = Names.id
          /\ def.fields[f].isKey
          /\ def.fields[f].generator = Str(<<"[", "u", "u", "i", "d", "]">>)
    /\ Len(def.relationships) = 2
    /\ \A i \in 1..2 : def.relationships[i].RelationshipType = "one"
                        /\ def.relationships[i].required
    /\ {def.relationships[i].ToEntity : i \in 1..2} = {r.FromEntity, r.ToEntity}
    /\ def.SourceRelationship = r

\* C15: once the schema is processed, every "many" relationship has exactly
\* one join definition, which has the key id generated by "[uuid]", two
\* required "one" relationships to the two ends, and the relationship it
\* came from
C15_OneJoinPerManyRelationship ==
    SchemaProcessed =>
        \A r \in DeclaredMany :
            /\ Cardinality(JoinsOf(r)) = 1
            /\ \A d \in JoinsOf(r) : IsJoinOf(entityDefinitions[d], r)

C15_Witness ==
    /\ SchemaProcessed
    /\ input.many = 2
    /\ Cardinality(DeclaredMany) = 2
    /\ \A r \in DeclaredMany : JoinsOf(r) # {}

-----------------------------------------------------------------------------
(* Claims about the order of the build *)

\* the rows of the list are the first rows of the other list, in their order
IsPrefix(list, other) ==
    Len(list) <= Len(other) /\ SubSeq(other, 1, Len(list)) = list

\* C17: a table that holds rows keeps them: no step of the build replaces
\* the row list of a table that is not empty, or drops a row of it
C17_FilledTableIsKept ==
    [][\A t \in DOMAIN tables :
          tables[t].DataRows # <<>> =>
              /\ t \in DOMAIN tables'
              /\ IsPrefix(tables[t].DataRows, tables'[t].DataRows)]_vars

C17_Witness ==
    /\ BuildSucceeded
    /\ Len(tables) = 3
    /\ \A t \in DOMAIN tables : tables[t].DataRows # <<>>
    /\ Len(tables[TableForEntity(tables, Names.User)].DataRows) > 1

\* the default one-to-many pass of the build is over
OneToManyPassIsOver ==
    /\ stack[1].op = "FillDataTables"
    /\ stack[1].pc \in {"tokens", "many", "named", "assign"}

\* C20: the placeholders of a row are expanded only after the default
\* one-to-many pass of the build has run
C20_ExpansionAfterOneToMany ==
    (error = "" /\ stack # <<>> /\ Top.op = "ProcessTokensInEntity") => OneToManyPassIsOver

-----------------------------------------------------------------------------
(* Claims about assignments *)

\* the path of the instruction, before its first "=", and the literal after it
TargetOf(instruction) == SubSeq(instruction, 1, IndexOf(instruction, <<"=">>) - 1)

LiteralOf(instruction) ==
    SubSeq(instruction, IndexOf(instruction, <<"=">>) + 1, Len(instruction))

\* the table a part "Users(0)" of a path names, and its index
PartName(part) == SubSeq(part, 1, IndexOf(part, <<"(">>) - 1)

IndexText(part) == SubSeq(part, IndexOf(part, <<"(">>) + 1, IndexOf(part, <<")">>) - 1)

PartIndex(part) == ParseInt(IndexText(part)).n

\* the part has parentheses around a text that is no index and no range
MalformedIndex(part) ==
    /\ Includes(part, "(")
    /\ \E i \in DOMAIN IndexText(part) :
          ~IsDigit(IndexText(part)[i]) /\ IndexText(part)[i] # "-"

\* the row the path addresses, or 0: "Users(i).f" is row i of the table,
\* "Organisations(i).Users(j).f" is row j of the users of organisation i
AddressedRow(target) ==
    LET path == Split(target, ".")
        table == GetTable(tables, PartName(path[1]))
        first == IF /\ table # 0
                    /\ \A i \in DOMAIN path : ~MalformedIndex(path[i])
                    /\ PartIndex(path[1]) < Len(tables[table].DataRows)
                 THEN tables[table].DataRows[PartIndex(path[1]) + 1]
                 ELSE 0
        list == IF first = 0 THEN Undefined
                ELSE GetValue(rows[first].DataValues, PartName(path[2]))
    IN  IF Len(path) = 2 THEN first
        ELSE IF list.k = "list" /\ PartIndex(path[2]) < Len(list.l)
        THEN list.l[PartIndex(path[2]) + 1]
        ELSE 0

AddressedField(target) == Split(target, ".")[Len(Split(target, "."))]

\* the instruction is the last of the list for the field of the row it
\* addresses
IsLastFor(i) ==
    \A j \in (i + 1)..Len(assign) :
        \/ AddressedRow(TargetOf(assign[j])) # AddressedRow(TargetOf(assign[i]))
        \/ AddressedField(TargetOf(assign[j])) # AddressedField(TargetOf(assign[i]))

\* C18: after the build, every field an instruction addresses holds the
\* literal of the last instruction that addresses it
C18_AssignmentsWin ==
    BuildSucceeded =>
        \A i \in DOMAIN assign :
            (AddressedRow(TargetOf(assign[i])) # 0 /\ IsLastFor(i)) =>
                GetValue(rows[AddressedRow(TargetOf(assign[i]))].DataValues,
                         AddressedField(TargetOf(assign[i])))
                    = Str(LiteralOf(assign[i]))

\* the step applies the second instruction of a list of one instruction
\* given twice
SecondOfTwice ==
    /\ Running("ProcessAssignment")
    /\ Len(assign) = 2
    /\ assign[1] = assign[2]
    /\ stack[1].todo = <<>>

\* C19: an instruction applied a second time leaves the tables and the rows
\* as the first time left them
C19_AssignmentIsIdempotent ==
    [][SecondOfTwice => (rows' = rows /\ tables' = tables /\ error' = "")]_vars

C19_Witness ==
    /\ BuildSucceeded
    /\ Len(assign) = 2
    /\ assign[1] = assign[2]
    /\ AddressedRow(TargetOf(assign[1])) # 0
    /\ GetValue(rows[AddressedRow(TargetOf(assign[1]))].DataValues, Names.name)
           = Str(<<"B", "o", "b">>)

-----------------------------------------------------------------------------
(* Lookup tokens *)

\* the text a lookup of the name of the row stands for once the row is
\* resolved: the name, cleaned when the token of the email has a ~
LookedUpName(r) ==
    LET def == GetEntityDefinition(rows[r].EntityType)
        token == CHOOSE g \in {def.fields[i].generator.s : i \in FieldsNamed(def, Names.email)} : TRUE
        value == GetValue(rows[r].DataValues, Names.name).s
    IN  IF Includes(token, "~") THEN Clean(value) ELSE value

\* C21: once the build is over, the text a lookup token [!name] or [!~name]
\* of a field was replaced with is the value the field name holds on the same
\* row (cleaned when ~ is present), whichever of the two fields is declared
\* first
C21_LookupEqualsField ==
    BuildSucceeded =>
        \A r \in DOMAIN rows :
            HasKey(rows[r].DataValues, Names.email) =>
                GetValue(rows[r].DataValues, Names.email).s = LookedUpName(r)

-----------------------------------------------------------------------------
(* Rejected attempts *)

\* an attempt of ProcessTokensInEntity is under way
AttemptInProgress == \E i \in DOMAIN stack : stack[i].op = "ProcessTokensInEntity"

\* the row holds the used value k = <<type, field, normalised value>>
HoldsUsedValue(r, k) ==
    /\ rows[r].EntityType = k[1]
    /\ HasKey(rows[r].DataValues, k[2])
    /\ GetValue(rows[r].DataValues, k[2]).k = "str"
    /\ UniqueKey(GetValue(rows[r].DataValues, k[2]).s) = k[3]

\* C30: a rejected attempt of ProcessTokensInEntity leaves no trace: whenever
\* no attempt is under way, every value in a used-value set of a type is the
\* normalised value some row of the type holds in that field
C30_UsedValuesAreHeld ==
    ~AttemptInProgress =>
        \A k \in unique_keys_values : \E r \in DOMAIN rows : HoldsUsedValue(r, k)

-----------------------------------------------------------------------------
(* List generators *)

\* the non-empty elements of a semicolon-separated list
ListElements(content) == {w \in Range(Split(content, ";")) : w # <<>>}

\* the generator the expression of the run is the one token of, if it is a
\* list of literals
IsListToken(g) ==
    /\ input = Tok(generators[g].name)
    /\ Includes(generators[g].values, ";")
    /\ ~Includes(generators[g].values, "[")

\* C28: the value picked for a token of a list generator is one of the
\* non-empty elements of the list, never an empty element left by separators
\* at the ends of the list
C28_PickIsListElement ==
    \A g \in DOMAIN generators :
        (BuildSucceeded /\ IsListToken(g)) => ret.s \in ListElements(generators[g].values)

-----------------------------------------------------------------------------
(* The number of rows of a filled table *)

\* what the schema declares for the type of table t
DeclaredFor(t) ==
    input.entities[CHOOSE i \in DOMAIN input.entities :
                      input.entities[i].name = tables[t].Entity]

\* FillTable returns in this step
FillTableReturns == Running("FillTable") /\ Len(stack') < Len(stack) /\ error' = ""

\* C27: when FillTable returns for the table of a declared type with an
\* integer count the table holds that many rows, and 50 rows when the type
\* is not abstract and declares no count
C27_FillTableGivesCount ==
    [][(/\ FillTableReturns
        /\ \E i \in DOMAIN input.entities : input.entities[i].name = tables[Top.table].Entity)
       => /\ DeclaredFor(Top.table).count.k = "num" =>
                Len(tables'[Top.table].DataRows) = DeclaredFor(Top.table).count.n
          /\ (DeclaredFor(Top.table).count = Undefined /\ ~DeclaredFor(Top.table).abstract) =>
                Len(tables'[Top.table].DataRows) = 50]_vars

\* the User table has been filled for a schema that declares no count for it
C27_Witness ==
    /\ input.count = Undefined
    /\ \E t \in DOMAIN tables :
          /\ tables[t].Entity = Names.User
          /\ Len(tables[t].DataRows) = 50

-----------------------------------------------------------------------------
(* Forward pointers and back-reference lists *)

\* how often the source row is in the list the target row keeps for the
\* table of the source
BackReferences(sourceRow, targetRow) ==
    LET sourceTable == tables[TableForEntity(tables, rows[sourceRow].EntityType)]
        list == GetValue(rows[targetRow].DataValues, sourceTable.TableName)
    IN  IF list.k = "list"
        THEN Cardinality({i \in DOMAIN list.l : list.l[i] = sourceRow})
        ELSE 0

\* the forward pointer of the source row for the type of the target row is
\* the target row
PointsTo(sourceRow, targetRow) ==
    GetValue(rows[sourceRow].DataValues, rows[targetRow].EntityType) = Ref(targetRow)

\* C29: a source row is in the back-reference list a target row keeps for the
\* source's table exactly once if the source's forward pointer for the
\* target's type is that target, and not at all otherwise
C29_BackReferencesAgree ==
    \A sourceRow \in DOMAIN rows : \A targetRow \in DOMAIN rows :
        (/\ TableForEntity(tables, rows[sourceRow].EntityType) # 0
         /\ TableForEntity(tables, rows[targetRow].EntityType) # 0)
        => BackReferences(sourceRow, targetRow)
              = (IF PointsTo(sourceRow, targetRow) THEN 1 ELSE 0)

-----------------------------------------------------------------------------
(* Scripts run when their instance is created *)

\* the first pass of FillDataTables, which creates the instances, is under way
InFillPass == stack # <<>> /\ stack[1].op = "FillDataTables" /\ stack[1].pc = "fill"

\* the organisations created so far
Created == {r \in DOMAIN rows : rows[r].EntityType = Names.Organisation}

\* the organisation whose script created the user
Creator(u) == GetValue(rows[u].DataValues, Names.Organisation).n

\* what the scripts of the trigger leave on the organisation they ran for
ScriptsExecuted(o) ==
    /\ input.ceo => /\ UsersOf(o) # <<>>
                    /\ HasRole(UsersOf(o)[1], Names.CEO)
    /\ input.range # <<>> => /\ Len(UsersOf(o)) >= input.range[1] + 1
                             /\ HasRole(UsersOf(o)[input.range[1] + 1], Names.Staff)

\* C26: the scripts of the type of an instance run in their declared order
\* when the instance is created and before the next instance of its table is
\* created: while instances are created, every organisation but the newest
\* shows what all its scripts do, an organisation with users of the second
\* script has the user of the first, and the users are in their table in the
\* order of the organisations that created them
C26_ScriptsRunAtCreation ==
    InFillPass =>
        /\ \A o1 \in Created : \A o2 \in Created : o1 < o2 => ScriptsExecuted(o1)
        /\ \A o \in Created :
              (input.ceo /\ Len(UsersOf(o)) >= 2) => HasRole(UsersOf(o)[1], Names.CEO)
        /\ \A i \in DOMAIN RowsOf(Names.User) : \A j \in DOMAIN RowsOf(Names.User) :
              i < j => Creator(RowsOf(Names.User)[i]) <= Creator(RowsOf(Names.User)[j])

\* two organisations have been created by a trigger with two scripts, and
\* the second has its users
C26_Witness ==
    /\ InFillPass
    /\ input.ceo /\ input.range # <<>>
    /\ \E o1 \in Created : \E o2 \in Created :
          /\ o1 < o2
          /\ ScriptsExecuted(o2)
          /\ Creator(RowsOf(Names.User)[Len(RowsOf(Names.User))]) = o2

-----------------------------------------------------------------------------
(* Malformed indices and nested paths *)

\* a script of a trigger, or the path of an instruction, has a part with a
\* malformed index
HasMalformedIndex ==
    \/ \E t \in DOMAIN triggers : \E i \in DOMAIN triggers[t].scripts :
          MalformedIndex(Split(triggers[t].scripts[i], ".")[1])
    \/ \E i \in DOMAIN assign : \E j \in DOMAIN Split(TargetOf(assign[i]), ".") :
          MalformedIndex(Split(TargetOf(assign[i]), ".")[j])

\* C24: a build whose trigger scripts or assignment paths have a malformed
\* index such as Users(x) ends with an error: the script or the instruction is
\* not skipped and not applied elsewhere
C24_MalformedIndexAborts == (Finished /\ HasMalformedIndex) => error # ""

\* C25: the one instruction of a build, with a path A(i).B(j).f, leaves its
\* literal in field f of element j of the B list of row i of table A
C25_NestedPathIsRelative ==
    (/\ BuildSucceeded
     /\ Len(assign) = 1
     /\ Len(Split(TargetOf(assign[1]), ".")) = 3
     /\ AddressedRow(TargetOf(assign[1])) # 0)
    => GetValue(rows[AddressedRow(TargetOf(assign[1]))].DataValues,
                AddressedField(TargetOf(assign[1])))
           = Str(Head(Split(LiteralOf(assign[1]), "=")))

-----------------------------------------------------------------------------
(* Named relationships *)

\* the rows of the table of a type
NamedRows(entity) == tables[TableForEntity(tables, entity.s)].DataRows

\* the rows of the source table the row of the enumerated table is related to
RelatedRows(r, parent) ==
    LET list == GetValue(rows[parent].DataValues,
                         tables[TableForEntity(tables, r.FromEntity)].TableName)
    IN  IF list.k = "list" THEN list.l ELSE <<>>

\* the singular assignment of the relationship takes the source row: it is
\* among the first related rows of a row of the enumerated table, one for
\* each singular value
Consumed(r, sourceRow) ==
    \E p \in DOMAIN NamedRows(r.EnumeratedTable) :
        \E k \in DOMAIN r.SingularRelationshipValues :
            /\ k <= Len(RelatedRows(r, NamedRows(r.EnumeratedTable)[p]))
            /\ RelatedRows(r, NamedRows(r.EnumeratedTable)[p])[k] = sourceRow

\* the forward pointer of the source row for the target type of the
\* relationship leads to a row that holds the value in the field
PointsToValue(r, sourceRow, field, value) ==
    LET p == GetValue(rows[sourceRow].DataValues, r.ToEntity)
    IN  p.k = "ref" /\ GetValue(rows[p.n].DataValues, field) = Str(value)

\* C22: after the named pass, every row of the source table that the singular
\* assignment of a relationship did not take points, for the target type of
\* that relationship, to the row of its default query, also when the source
\* type has two such relationships
C22_RemainingRowsGetDefault ==
    BuildSucceeded =>
        \A i \in DOMAIN DefaultRelationships :
            LET r == DefaultRelationships[i]
                parts == Split(r.DefaultTargetQuery.s, ":")
            IN  \A u \in DOMAIN NamedRows(Str(r.FromEntity)) :
                    ~Consumed(r, NamedRows(Str(r.FromEntity))[u]) =>
                        PointsToValue(r, NamedRows(Str(r.FromEntity))[u],
                                      Trim(parts[1]), Trim(parts[2]))

\* the singular values of the relationship are pairwise distinct and none is
\* the value of the default query
HasDistinctValues(r) ==
    LET values == r.SingularRelationshipValues
    IN  /\ \A j \in DOMAIN values : \A k \in DOMAIN values : values[j] = values[k] => j = k
        /\ \A k \in DOMAIN values : values[k] # Trim(Split(r.DefaultTargetQuery.s, ":")[2])

\* C23: after the named pass for a relationship with distinct singular
\* values, none of them the default, every row of the enumerated table has at
\* least as many related rows as there are singular values (the build fails
\* otherwise), and for every singular value exactly one of its related rows
\* points to the target row that holds the value
C23_OneRowPerSingularValue ==
    BuildSucceeded =>
        \A i \in DOMAIN DefaultRelationships :
            LET r == DefaultRelationships[i]
            IN  HasDistinctValues(r) =>
                    \A p \in DOMAIN NamedRows(r.EnumeratedTable) :
                        LET related == RelatedRows(r, NamedRows(r.EnumeratedTable)[p])
                        IN  /\ Len(r.SingularRelationshipValues) <= Len(related)
                            /\ \A k \in DOMAIN r.SingularRelationshipValues :
                                  Cardinality({u \in Range(related) :
                                      PointsToValue(r, u, r.SingularRelationshipField.s,
                                                    r.SingularRelationshipValues[k])}) = 1

\* a build with two singular values has succeeded, with a user more than
\* there are values
C23_Witness ==
    /\ BuildSucceeded
    /\ Len(input.values) = 2
    /\ \E p \in DOMAIN NamedRows(Str(Names.Organisation)) :
          /\ Len(RelatedRows(DefaultRelationships[1], NamedRows(Str(Names.Organisation))[p])) = 3
          /\ PointsToValue(DefaultRelationships[1],
                           RelatedRows(DefaultRelationships[1],
                                       NamedRows(Str(Names.Organisation))[p])[2],
                           Names.name, Names.CFO)

====
